---- MODULE Spec2Model ----
(***************************************************************************)
(* A model of goph/nest: the Configurator (Load and its setters), the      *)
(* field definition extractor, value coercion, and the parts of the viper  *)
(* store and the pflag parser that Load drives.                            *)
(*                                                                         *)
(* Go strings are sequences of one-character strings, so that case         *)
(* folding, prefixing, word splitting and number parsing are computed      *)
(* character by character.                                                 *)
(***************************************************************************)
EXTENDS Integers, Sequences, FiniteSets, TLC

\* ------------------------------------------------------------------ bounds

\* How many Configurator calls (setters and Loads) one behaviour starts.
MaxCalls == 2

\* How many nested getDefinitionsForStruct calls the goroutine's stack holds.
MaxDepth == 3

\* ----------------------------------------------------------------- strings

LowerChars == <<"a","b","c","d","e","f","g","h","i","j","k","l","m",
                "n","o","p","q","r","s","t","u","v","w","x","y","z">>

UpperChars == <<"A","B","C","D","E","F","G","H","I","J","K","L","M",
                "N","O","P","Q","R","S","T","U","V","W","X","Y","Z">>

DigitChars == <<"0","1","2","3","4","5","6","7","8","9">>

\* Position of c in seq, 0 when absent.
IndexOf(c, seq) ==
    IF \E i \in 1..Len(seq) : seq[i] = c
    THEN CHOOSE i \in 1..Len(seq) : seq[i] = c /\ \A j \in 1..(i-1) : seq[j] # c
    ELSE 0

IsUpperChar(c) == IndexOf(c, UpperChars) > 0

ToUpperChar(c) ==
    LET i == IndexOf(c, LowerChars) IN IF i > 0 THEN UpperChars[i] ELSE c

ToLowerChar(c) ==
    LET i == IndexOf(c, UpperChars) IN IF i > 0 THEN LowerChars[i] ELSE c

\* strings.ToUpper
ToUpper(s) == [i \in 1..Len(s) |-> ToUpperChar(s[i])]

\* strings.ToLower
ToLower(s) == [i \in 1..Len(s) |-> ToLowerChar(s[i])]

\* strings.Replace(s, old, new, -1) for one-character old and new
ReplaceChar(s, old, new) == [i \in 1..Len(s) |-> IF s[i] = old THEN new ELSE s[i]]

\* s[from:] in Go's 0-based slicing, given 1-based from
Tail_(s, from) == IF from > Len(s) THEN <<>> ELSE SubSeq(s, from, Len(s))

HasPrefix(s, p) == Len(s) >= Len(p) /\ SubSeq(s, 1, Len(p)) = p

\* isTrue: strconv.ParseBool's true literals; every other string is false
\* (the parse error is dropped).
isTrue(s) ==
    s \in { <<"1">>, <<"t">>, <<"T">>, <<"t","r","u","e">>,
            <<"T","R","U","E">>, <<"T","r","u","e">> }

\* lowerFirst: lower-cases the first rune.  The code indexes a[0] without a
\* length check; callers only pass field identifiers, which are non-empty.
lowerFirst(s) == [i \in 1..Len(s) |-> IF i = 1 THEN ToLowerChar(s[i]) ELSE s[i]]

\* isExported: the identifier starts with an upper-case letter.
isExported(name) == Len(name) > 0 /\ IsUpperChar(name[1])

\* Length of the longest run starting at i of characters that are upper-case
\* (upper = TRUE) or not upper-case (upper = FALSE).
RECURSIVE RunLen(_, _, _)
RunLen(s, i, upper) ==
    IF i > Len(s) \/ IsUpperChar(s[i]) # upper THEN 0
    ELSE 1 + RunLen(s, i + 1, upper)

\* One match of ([^A-Z]+|[A-Z][^A-Z]+|[A-Z]+) at position i: its length.
\* Alternatives are tried in order and each is greedy.
WordLenAt(s, i) ==
    IF ~IsUpperChar(s[i]) THEN RunLen(s, i, FALSE)
    ELSE IF RunLen(s, i + 1, FALSE) > 0 THEN 1 + RunLen(s, i + 1, FALSE)
    ELSE RunLen(s, i, TRUE)

\* FindAllStringSubmatch: the successive matches from position i on.
RECURSIVE WordsFrom(_, _)
WordsFrom(s, i) ==
    IF i > Len(s) THEN <<>>
    ELSE LET n == WordLenAt(s, i)
         IN <<SubSeq(s, i, i + n - 1)>> \o WordsFrom(s, i + n)

\* strings.Join
RECURSIVE Join(_, _)
Join(words, glue) ==
    IF Len(words) = 0 THEN <<>>
    ELSE IF Len(words) = 1 THEN words[1]
    ELSE words[1] \o glue \o Join(Tail(words), glue)

\* splitWords: camel case to lower-case words joined by glue.
splitWords(s, glue) ==
    LET words == WordsFrom(s, 1)
    IN IF Len(words) < 1 THEN <<>> ELSE ToLower(Join(words, glue))

\* ------------------------------------------------------------------ errors

\* A Go error value: its identity (t) and, for errors built with a message,
\* the message.  NoError is nil.
NoError == [t |-> "nil", msg |-> <<>>]

ErrNotStructPointer == [t |-> "ErrNotStructPointer", msg |-> <<>>]

ErrNotStruct == [t |-> "ErrNotStruct", msg |-> <<>>]

\* ErrFlagHelp is pflag.ErrHelp itself.
ErrFlagHelp == [t |-> "pflag.ErrHelp", msg |-> <<>>]

RequiredHead == <<"r","e","q","u","i","r","e","d"," ","f","i","e","l","d"," ">>

RequiredTail == <<" ","m","i","s","s","i","n","g"," ","v","a","l","u","e">>

\* fmt.Errorf("required field %s missing value", def.key)
RequiredError(key) == [t |-> "required", msg |-> RequiredHead \o key \o RequiredTail]

\* The error strconv returns for an input it cannot convert.
ConvError(value) == [t |-> "strconv", msg |-> value]

\* The errors pflag builds itself: unknown flag, bad syntax, missing argument.
FlagError(arg) == [t |-> "pflag", msg |-> arg]

\* -------------------------------------------------------------- Go values

\* The field kinds of the model.  int16 stands for the kinds the extractor
\* emits and processField has no case for; slice for the kinds the extractor
\* skips.
SignedKinds == {"int", "int8"}

UnsignedKinds == {"uint"}

FloatKinds == {"float64"}

\* typ.Bits()
Bits(kind) == IF kind = "int8" THEN 8 ELSE IF kind = "int16" THEN 16 ELSE 64

\* reflect.Zero(t).Interface(): a number is an integer, a float is its
\* shortest decimal rendering, a string is its characters.
ZeroOf(kind) ==
    CASE kind \in {"string", "struct"} -> <<>>
      [] kind = "bool" -> FALSE
      [] kind \in FloatKinds -> <<"0">>
      [] OTHER -> 0

\* isZeroValueOfType: deep equality with the zero value of the type.
isZeroValueOfType(kind, v) == v = ZeroOf(kind)

RECURSIVE NatToStr(_)
NatToStr(n) ==
    IF n < 10 THEN <<DigitChars[n + 1]>>
    ELSE NatToStr(n \div 10) \o <<DigitChars[(n % 10) + 1]>>

\* time.Duration.String() for whole seconds: 10s, 1m30s, 1h0m0s.
FormatDuration(n) ==
    LET h == n \div 3600
        m == (n % 3600) \div 60
        sec == NatToStr(n % 60) \o <<"s">>
    IN IF h > 0 THEN NatToStr(h) \o <<"h">> \o NatToStr(m) \o <<"m">> \o sec
       ELSE IF m > 0 THEN NatToStr(m) \o <<"m">> \o sec
       ELSE sec

\* fmt.Sprintf("%v", value).  A struct (here one with a single string field,
\* which is the value) is rendered in braces.
FormatV(kind, v) ==
    CASE kind = "string" -> v
      [] kind = "struct" -> <<"{">> \o v \o <<"}">>
      [] kind = "duration" -> FormatDuration(v)
      [] kind = "bool" -> IF v THEN <<"t","r","u","e">> ELSE <<"f","a","l","s","e">>
      [] kind \in FloatKinds -> v
      [] OTHER -> IF v < 0 THEN <<"-">> \o NatToStr(-v) ELSE NatToStr(v)

\* Value of a digit character in the given base, -1 when it is none.
DigitVal(c, base) ==
    LET d == IndexOf(c, DigitChars)
        l == IndexOf(ToLowerChar(c), LowerChars)
        v == IF d > 0 THEN d - 1 ELSE IF l > 0 /\ l <= 6 THEN 9 + l ELSE -1
    IN IF v >= 0 /\ v < base THEN v ELSE -1

RECURSIVE DigitsVal(_, _, _)
\* The number the digits spell in the base, on top of acc; -1 when a
\* character is no digit of the base.
DigitsVal(s, base, acc) ==
    IF Len(s) = 0 THEN acc
    ELSE IF DigitVal(s[1], base) < 0 THEN -1
    ELSE DigitsVal(Tail(s), base, acc * base + DigitVal(s[1], base))

\* The base a literal's prefix selects (base 0): 0x hexadecimal, a leading
\* 0 octal, decimal otherwise; and the digits after the prefix.
IsHex(s) == Len(s) > 2 /\ s[1] = "0" /\ s[2] \in {"x", "X"}

IsOctal(s) == ~IsHex(s) /\ Len(s) > 1 /\ s[1] = "0"

BaseOf(s) == IF IsHex(s) THEN 16 ELSE IF IsOctal(s) THEN 8 ELSE 10

DigitsOf(s) == IF IsHex(s) THEN Tail_(s, 3) ELSE IF IsOctal(s) THEN Tail_(s, 2) ELSE s

\* The result for the number n the digits spell (-1: a syntax error) at the
\* width.  A 64-bit range cannot overflow on the short inputs here.
UintResult(n, bits) ==
    IF n < 0 THEN [ok |-> FALSE, v |-> 0]
    ELSE IF bits < 31 /\ n > 2^bits - 1 THEN [ok |-> FALSE, v |-> 0]
    ELSE [ok |-> TRUE, v |-> n]

\* strconv.ParseUint(s, 0, bits): no sign.  ok is FALSE on a syntax or
\* range error.
ParseUint(s, bits) ==
    UintResult(IF Len(DigitsOf(s)) = 0 THEN -1
               ELSE DigitsVal(DigitsOf(s), BaseOf(s), 0), bits)

\* The signed result for the magnitude u at the width.
IntResult(u, neg, bits) ==
    IF ~u.ok THEN [ok |-> FALSE, v |-> 0]
    ELSE IF bits < 31 /\ ((~neg /\ u.v > 2^(bits-1) - 1) \/ (neg /\ u.v > 2^(bits-1)))
    THEN [ok |-> FALSE, v |-> 0]
    ELSE [ok |-> TRUE, v |-> IF neg THEN -u.v ELSE u.v]

\* strconv.ParseInt(s, 0, bits): an optional sign, then as ParseUint, then
\* the signed range of the width.
ParseInt(s, bits) ==
    IntResult(ParseUint(IF Len(s) > 0 /\ s[1] \in {"+", "-"} THEN Tail_(s, 2) ELSE s, 64),
              Len(s) > 0 /\ s[1] = "-", bits)

RECURSIVE StripLeadingZeros(_)
StripLeadingZeros(s) ==
    IF Len(s) > 1 /\ s[1] = "0" THEN StripLeadingZeros(Tail(s)) ELSE s

RECURSIVE StripTrailingZeros(_)
StripTrailingZeros(s) ==
    IF Len(s) > 0 /\ s[Len(s)] = "0" THEN StripTrailingZeros(SubSeq(s, 1, Len(s) - 1))
    ELSE s

AllDigits(s) == \A i \in 1..Len(s) : DigitVal(s[i], 10) >= 0

\* strconv.ParseFloat on plain decimals (digits, an optional point, digits):
\* the value is kept as its shortest rendering, which is what %v prints.
ParseFloat(s) ==
    LET dot == IndexOf(".", s)
        ip == IF dot = 0 THEN s ELSE SubSeq(s, 1, dot - 1)
        fp == IF dot = 0 THEN <<>> ELSE Tail_(s, dot + 1)
        frac == StripTrailingZeros(fp)
        int == IF Len(ip) = 0 THEN <<"0">> ELSE StripLeadingZeros(ip)
    IN IF Len(ip) + Len(fp) = 0 \/ ~AllDigits(ip) \/ ~AllDigits(fp)
       THEN [ok |-> FALSE, v |-> <<"0">>]
       ELSE [ok |-> TRUE, v |-> IF Len(frac) = 0 THEN int ELSE int \o <<".">> \o frac]

\* strconv.ParseBool
ParseBool(s) ==
    IF isTrue(s) THEN [ok |-> TRUE, v |-> TRUE]
    ELSE IF s \in { <<"0">>, <<"f">>, <<"F">>, <<"f","a","l","s","e">>,
                    <<"F","A","L","S","E">>, <<"F","a","l","s","e">> }
    THEN [ok |-> TRUE, v |-> FALSE]
    ELSE [ok |-> FALSE, v |-> FALSE]

\* The number of leading decimal digits of s.
RECURSIVE DigitRun(_)
DigitRun(s) ==
    IF Len(s) > 0 /\ IndexOf(s[1], DigitChars) > 0 THEN 1 + DigitRun(Tail(s)) ELSE 0

\* Seconds in a unit of time.ParseDuration, 0 for a unit the model has not.
UnitSeconds(u) ==
    IF u = "h" THEN 3600 ELSE IF u = "m" THEN 60 ELSE IF u = "s" THEN 1 ELSE 0

\* time.ParseDuration on whole numbers of hours, minutes and seconds: a
\* sequence of number and unit pairs, summed on top of acc.
RECURSIVE DurationFrom(_, _)
DurationFrom(s, acc) ==
    IF Len(s) = 0 THEN [ok |-> TRUE, v |-> acc]
    ELSE IF DigitRun(s) = 0 \/ DigitRun(s) = Len(s) THEN [ok |-> FALSE, v |-> 0]
    ELSE IF UnitSeconds(s[DigitRun(s) + 1]) = 0 THEN [ok |-> FALSE, v |-> 0]
    ELSE DurationFrom(Tail_(s, DigitRun(s) + 2),
                      acc + DigitsVal(SubSeq(s, 1, DigitRun(s)), 10, 0)
                              * UnitSeconds(s[DigitRun(s) + 1]))

ParseDuration(s) ==
    IF s = <<"0">> THEN [ok |-> TRUE, v |-> 0]
    ELSE IF Len(s) = 0 THEN [ok |-> FALSE, v |-> 0]
    ELSE DurationFrom(s, 0)

\* What a type can do: valDec and valText tell whether the type itself has
\* a Decode and an UnmarshalText method, ptrDec and ptrText whether a
\* pointer to it has.
Caps(valDec, ptrDec, valText, ptrText) ==
    [valDec |-> valDec, ptrDec |-> ptrDec, valText |-> valText, ptrText |-> ptrText]

NoCaps == Caps(FALSE, FALSE, FALSE, FALSE)

\* The value, or when it is addressable a pointer to it, is a Decoder; is an
\* encoding.TextUnmarshaler.
asDecoder(caps, canAddr) == caps.valDec \/ (canAddr /\ caps.ptrDec)

asTextUnmarshaler(caps, canAddr) == caps.valText \/ (canAddr /\ caps.ptrText)

\* A check that only looks for the Decoder.
canDecodeDecoderOnly(caps, canAddr) == asDecoder(caps, canAddr)

\* canDecode, for a value that can be taken as an interface.
canDecode(caps, canAddr) == asDecoder(caps, canAddr) \/ asTextUnmarshaler(caps, canAddr)

DecodeError == [t |-> "decode", msg |-> <<>>]

\* A decode that asks for the text unmarshaler first.
decodeTextFirst(caps, canAddr, value) ==
    IF ~canDecode(caps, canAddr) THEN [err |-> DecodeError, v |-> <<>>, via |-> "none"]
    ELSE IF asTextUnmarshaler(caps, canAddr)
    THEN [err |-> NoError, v |-> value, via |-> "UnmarshalText"]
    ELSE [err |-> NoError, v |-> value, via |-> "Decode"]

\* decode: the Decoder when there is one, else the text unmarshaler.  via
\* is the method that was called; the methods of the model's types store
\* the text they are given.
decode(caps, canAddr, value) ==
    IF ~canDecode(caps, canAddr) THEN [err |-> DecodeError, v |-> <<>>, via |-> "none"]
    ELSE IF asDecoder(caps, canAddr)
    THEN [err |-> NoError, v |-> value, via |-> "Decode"]
    ELSE IF asTextUnmarshaler(caps, canAddr)
    THEN [err |-> NoError, v |-> value, via |-> "UnmarshalText"]
    ELSE [err |-> DecodeError, v |-> <<>>, via |-> "none"]

\* The result of a conversion r stored in a field: on an error the field
\* keeps its value.
Converted(r, old, value) ==
    IF r.ok THEN [err |-> NoError, v |-> r.v]
    ELSE [err |-> ConvError(value), v |-> old]

\* processField: coerce the string into the field.  The result is the
\* error and the field's value afterwards (old is its value before).  A
\* decodable field is handed the text as it is; a kind without a case is
\* left as it was and no error is returned.
processField(kind, caps, old, value) ==
    IF canDecode(caps, TRUE) THEN decode(caps, TRUE, value)
    ELSE CASE kind = "string" -> [err |-> NoError, v |-> value]
           [] kind = "duration" -> Converted(ParseDuration(value), old, value)
           [] kind \in SignedKinds -> Converted(ParseInt(value, Bits(kind)), old, value)
           [] kind \in UnsignedKinds -> Converted(ParseUint(value, Bits(kind)), old, value)
           [] kind \in FloatKinds -> Converted(ParseFloat(value), old, value)
           [] kind = "bool" -> Converted(ParseBool(value), old, value)
           [] OTHER -> [err |-> NoError, v |-> old]

\* ---------------------------------------------------------------- schemas

\* A struct field as reflection shows it: identifier, kind after pointer
\* dereference, tag (annotation name -> value), for a struct kind the name
\* of its type, whether the field is a pointer, what its type can do and
\* whether canDecode holds for it (a field reached through the pointer
\* Load is given is addressable).
Field(name, kind, tags) ==
    [name |-> name, kind |-> kind, tags |-> tags, elem |-> "",
     ptr |-> FALSE, decodable |-> FALSE, caps |-> NoCaps]

StructField(name, elem, tags, ptr) ==
    [name |-> name, kind |-> "struct", tags |-> tags, elem |-> elem,
     ptr |-> ptr, decodable |-> FALSE, caps |-> NoCaps]

\* A field of a type with Decode or UnmarshalText methods.
DecField(name, kind, tags, caps) ==
    [name |-> name, kind |-> kind, tags |-> tags, elem |-> "",
     ptr |-> FALSE, decodable |-> canDecode(caps, TRUE), caps |-> caps]

NoTags == [t \in {} |-> <<>>]

TagIgnored == "ignored"

TagDefault == "default"

TagRequired == "required"

TagSplitWords == "split_words"

TagPrefix == "prefix"

TagEnvironment == "env"

TagFlag == "flag"

TagUsage == "usage"

\* structField.Tag.Lookup
HasTag(f, tag) == tag \in DOMAIN f.tags

\* structField.Tag.Get
TagGet(f, tag) == IF HasTag(f, tag) THEN f.tags[tag] ELSE <<>>

\* unsupportedTypes: kinds that get no definition.
unsupportedTypes ==
    {"complex64", "complex128", "array", "chan", "func", "interface",
     "map", "ptr", "slice", "unsafe.Pointer"}

\* The struct types Load is given in this model, by type name.
\*   Prec:   the precedence test's shape, a string and two numbers that every
\*           source can feed, and a field that only has a default
\*   Req:    a field with a default, a field without any annotation, a
\*           required field an environment variable can feed, a required
\*           field with a default and an unexported field
\*   Must:   a required field that a flag can feed
\*   Kinds:  one flag-fed field of each numeric and boolean kind
\*   Twin:   two sub-records given the same prefix, so that their fields
\*           share a key
\*   Plain:  a record whose field has the key of Prec's first field and no
\*           source of its own
\*   Outer:  a sub-record (EnvSub) with the prefix sub whose field an
\*           environment variable can feed
\*   Types:  one field of each kind without any annotation, among them a
\*           duration, a string type with Decode (D), a string type with
\*           UnmarshalText (M), a struct type with Decode (C), a type with
\*           both methods (Y), a type whose value has UnmarshalText and
\*           whose pointer also has Decode (Z), and a struct type with
\*           UnmarshalText (R), the struct types having one field
\*           (DecSub), and a plain sub-record (P)
\*   Hid:    an ignored field with a default that is also required, an
\*           ignored pointer to a sub-record, an unexported sub-record, a
\*           field with a default, a field whose ignored annotation is
\*           false and an unexported required field
\*   Emb:    a sub-record with an empty prefix, a sub-record with a prefix
\*           that holds (Inner) a sub-record with an empty prefix, and a
\*           field with the name of the sub-records' field
\*   Alias:  a field whose aliases are split into words, a field with
\*           explicit aliases, a sub-record without annotations
\*           (FlagSub), a sub-record whose name is split into words, a
\*           sub-record with a prefix that holds (FlagIn) an embedded
\*           sub-record with an empty prefix, and an embedded sub-record
\*   Node:   a record with a pointer to its own type
\*   Ping:   a record with a pointer to a record (Pong) that points back
TypeTable ==
    [ Prec  |-> << Field(<<"A">>, "string",
                       (TagFlag :> <<>>) @@ (TagEnvironment :> <<>>)
                         @@ (TagDefault :> <<"d">>)),
                   Field(<<"N">>, "int",
                       (TagFlag :> <<>>) @@ (TagEnvironment :> <<>>)
                         @@ (TagDefault :> <<"7">>)),
                   Field(<<"D">>, "string", (TagDefault :> <<"d">>)) >>,
      Req   |-> << Field(<<"A">>, "string", (TagDefault :> <<"d">>)),
                   Field(<<"O">>, "string", NoTags),
                   Field(<<"N">>, "int8",
                       (TagRequired :> <<"t","r","u","e">>) @@ (TagEnvironment :> <<>>)),
                   Field(<<"Z">>, "string",
                       (TagRequired :> <<"1">>) @@ (TagDefault :> <<"z">>)),
                   Field(<<"q">>, "string", (TagDefault :> <<"q">>)) >>,
      Must  |-> << Field(<<"R">>, "string",
                       (TagRequired :> <<"t","r","u","e">>) @@ (TagFlag :> <<>>)) >>,
      Kinds |-> << Field(<<"I">>, "int", (TagFlag :> <<>>)),
                   Field(<<"H">>, "int16", (TagFlag :> <<>>)),
                   Field(<<"U">>, "uint", (TagFlag :> <<>>)),
                   Field(<<"F">>, "float64", (TagFlag :> <<>>)),
                   Field(<<"B">>, "bool", (TagFlag :> <<>>)) >>,
      Sub   |-> << Field(<<"V">>, "string", (TagDefault :> <<"d">>)) >>,
      Twin  |-> << StructField(<<"L">>, "Sub", (TagPrefix :> <<"s">>), FALSE),
                   StructField(<<"M">>, "Sub", (TagPrefix :> <<"s">>), TRUE) >>,
      Plain |-> << Field(<<"A">>, "string", NoTags) >>,
      EnvSub |-> << Field(<<"V","a","l","u","e">>, "string", (TagEnvironment :> <<>>)) >>,
      Outer |-> << StructField(<<"S","u","b","c","o","n","f","i","g">>, "EnvSub",
                       (TagPrefix :> <<"s","u","b">>), FALSE) >>,
      Types |-> << Field(<<"S">>, "string", NoTags),
                   Field(<<"I">>, "int", NoTags),
                   Field(<<"I","8">>, "int8", NoTags),
                   Field(<<"U">>, "uint", NoTags),
                   Field(<<"F">>, "float64", NoTags),
                   Field(<<"B">>, "bool", NoTags),
                   Field(<<"T">>, "duration", NoTags),
                   DecField(<<"D">>, "string", NoTags, Caps(FALSE, TRUE, FALSE, FALSE)),
                   DecField(<<"M">>, "string", NoTags, Caps(FALSE, FALSE, FALSE, TRUE)),
                   [DecField(<<"C">>, "struct", NoTags, Caps(FALSE, TRUE, FALSE, FALSE))
                       EXCEPT !.elem = "DecSub"],
                   DecField(<<"Y">>, "string", NoTags, Caps(FALSE, TRUE, FALSE, TRUE)),
                   DecField(<<"Z">>, "string", NoTags, Caps(FALSE, TRUE, TRUE, TRUE)),
                   [DecField(<<"R">>, "struct", NoTags, Caps(FALSE, FALSE, FALSE, TRUE))
                       EXCEPT !.elem = "DecSub"],
                   StructField(<<"P">>, "Sub", NoTags, FALSE) >>,
      DecSub |-> << Field(<<"V","a","l","u","e">>, "string", NoTags) >>,
      Hid   |-> << Field(<<"G">>, "string",
                       (TagIgnored :> <<"t","r","u","e">>) @@ (TagDefault :> <<"g">>)
                         @@ (TagRequired :> <<"t","r","u","e">>)),
                   StructField(<<"K">>, "Sub", (TagIgnored :> <<"1">>), TRUE),
                   StructField(<<"u">>, "Sub", NoTags, FALSE),
                   Field(<<"W">>, "string", (TagDefault :> <<"w">>)),
                   Field(<<"X">>, "string",
                       (TagIgnored :> <<"f","a","l","s","e">>) @@ (TagDefault :> <<"x">>)),
                   Field(<<"r">>, "string", (TagRequired :> <<"t","r","u","e">>)) >>,
      Inner |-> << StructField(<<"S","u","b">>, "Sub", (TagPrefix :> <<>>), FALSE) >>,
      Emb   |-> << StructField(<<"E">>, "Sub", (TagPrefix :> <<>>), FALSE),
                   StructField(<<"O">>, "Inner",
                       (TagPrefix :> <<"o","t","h","e","r">>), FALSE),
                   Field(<<"V">>, "string", (TagDefault :> <<"w">>)) >>,
      FlagSub |-> << Field(<<"V","a","l","u","e">>, "string",
                       (TagFlag :> <<>>) @@ (TagEnvironment :> <<>>)) >>,
      FlagIn |-> << StructField(<<"F","l","a","g","S","u","b">>, "FlagSub",
                       (TagPrefix :> <<>>), FALSE) >>,
      Alias |-> << Field(<<"O","t","h","e","r","V","a","l","u","e">>, "string",
                       (TagFlag :> <<>>) @@ (TagEnvironment :> <<>>)
                         @@ (TagSplitWords :> <<"t","r","u","e">>)),
                   Field(<<"X","y">>, "string",
                       (TagFlag :> <<"A","l">>) @@ (TagEnvironment :> <<"a","l">>)),
                   StructField(<<"S","c","o","n","f","i","g">>, "FlagSub", NoTags, FALSE),
                   StructField(<<"S","p","l","i","t","S","u","b">>, "Sub",
                       (TagSplitWords :> <<"1">>), FALSE),
                   StructField(<<"O">>, "FlagIn", (TagPrefix :> <<"o">>), FALSE),
                   StructField(<<"S","u","b">>, "Sub", NoTags, FALSE) >>,
      Node  |-> << Field(<<"V">>, "string", (TagDefault :> <<"d">>)),
                   StructField(<<"N","e","x","t">>, "Node", NoTags, TRUE) >>,
      Ping  |-> << StructField(<<"Q">>, "Pong", NoTags, TRUE) >>,
      Pong  |-> << StructField(<<"P">>, "Ping", NoTags, TRUE) >> ]

\* The paths (field indexes from the root) of the leaf fields of a struct.
RECURSIVE LeafPaths(_, _)
LeafPaths(T, base) ==
    UNION { IF TypeTable[T][i].kind = "struct" /\ ~TypeTable[T][i].decodable
            THEN LeafPaths(TypeTable[T][i].elem, base \o <<i>>)
            ELSE {base \o <<i>>} : i \in 1..Len(TypeTable[T]) }

\* The field descriptor at a path.
RECURSIVE FieldAt(_, _)
FieldAt(T, path) ==
    IF Len(path) = 1 THEN TypeTable[T][path[1]]
    ELSE FieldAt(TypeTable[T][path[1]].elem, Tail(path))

\* The paths of the pointer fields of a struct, and of the structs below.
RECURSIVE PtrPaths(_, _)
PtrPaths(T, base) ==
    UNION { (IF TypeTable[T][i].ptr THEN {base \o <<i>>} ELSE {})
            \cup (IF TypeTable[T][i].kind = "struct" /\ ~TypeTable[T][i].decodable
                  THEN PtrPaths(TypeTable[T][i].elem, base \o <<i>>) ELSE {})
            : i \in 1..Len(TypeTable[T]) }

\* ------------------------------------------------------------- extractor

\* A walk that skips unexported fields only.
skipsUnexported(f) == ~isExported(f.name)

\* The fields the walk passes over: unexported ones, and those whose
\* ignored annotation is true.
skipField(f) ==
    \/ ~isExported(f.name)
    \/ HasTag(f, TagIgnored) /\ isTrue(f.tags[TagIgnored])

\* A definition that gets its flag only while the field is zero.
fieldDefinitionZeroFlag(f, path, prefix, rec) ==
    LET zero == isZeroValueOfType(f.kind, rec[path])
        flagPrefix == IF prefix # <<>>
                      THEN ToLower(ReplaceChar(prefix, ".", "-")) \o <<"-">> ELSE <<>>
        envPrefix  == IF prefix # <<>>
                      THEN ToLower(ReplaceChar(prefix, ".", "_")) \o <<"_">> ELSE <<>>
    IN [ key           |-> (IF prefix # <<>> THEN prefix \o <<".">> ELSE <<>>) \o f.name,
         field         |-> path,
         kind          |-> f.kind,
         decodable     |-> f.decodable,
         caps          |-> f.caps,
         usage         |-> TagGet(f, TagUsage),
         hasOverride   |-> ~zero,
         overrideValue |-> IF zero THEN <<>> ELSE rec[path],
         hasFlag       |-> HasTag(f, TagFlag) /\ zero,
         flagAlias     |-> IF HasTag(f, TagFlag) /\ zero
                           THEN flagPrefix \o (IF TagGet(f, TagFlag) # <<>>
                                               THEN TagGet(f, TagFlag)
                                               ELSE lowerFirst(f.name))
                           ELSE <<>>,
         hasEnv        |-> HasTag(f, TagEnvironment),
         envAlias      |-> IF HasTag(f, TagEnvironment)
                           THEN ToUpper(envPrefix \o (IF TagGet(f, TagEnvironment) # <<>>
                                                      THEN TagGet(f, TagEnvironment)
                                                      ELSE f.name))
                           ELSE <<>>,
         hasDefault    |-> HasTag(f, TagDefault),
         defaultValue  |-> TagGet(f, TagDefault),
         required      |-> HasTag(f, TagRequired) /\ isTrue(f.tags[TagRequired]) ]

\* The definition getDefinitionsForStruct builds for one leaf field.
fieldDefinition(f, path, prefix, rec) ==
    LET keyPrefix  == IF prefix # <<>> THEN prefix \o <<".">> ELSE <<>>
        flagPrefix == IF prefix # <<>>
                      THEN ToLower(ReplaceChar(prefix, ".", "-")) \o <<"-">> ELSE <<>>
        envPrefix  == IF prefix # <<>>
                      THEN ToLower(ReplaceChar(prefix, ".", "_")) \o <<"_">> ELSE <<>>
        split      == HasTag(f, TagSplitWords) /\ isTrue(f.tags[TagSplitWords])
        flagName   ==
            IF TagGet(f, TagFlag) # <<>> THEN TagGet(f, TagFlag)
            ELSE IF split /\ splitWords(lowerFirst(f.name), <<"-">>) # <<>>
                 THEN splitWords(lowerFirst(f.name), <<"-">>)
                 ELSE lowerFirst(f.name)
        envName    ==
            IF TagGet(f, TagEnvironment) # <<>>
            THEN ToUpper(envPrefix \o TagGet(f, TagEnvironment))
            ELSE IF split
                 THEN IF splitWords(f.name, <<"_">>) # <<>>
                      THEN ToUpper(envPrefix \o splitWords(f.name, <<"_">>))
                      ELSE <<>>
                 ELSE ToUpper(envPrefix \o f.name)
    IN [ key           |-> keyPrefix \o f.name,
         field         |-> path,
         kind          |-> f.kind,
         decodable     |-> f.decodable,
         caps          |-> f.caps,
         usage         |-> TagGet(f, TagUsage),
         hasOverride   |-> ~isZeroValueOfType(f.kind, rec[path]),
         overrideValue |-> IF isZeroValueOfType(f.kind, rec[path]) THEN <<>> ELSE rec[path],
         hasFlag       |-> HasTag(f, TagFlag),
         flagAlias     |-> IF HasTag(f, TagFlag) THEN flagPrefix \o flagName ELSE <<>>,
         hasEnv        |-> HasTag(f, TagEnvironment),
         envAlias      |-> IF HasTag(f, TagEnvironment) THEN envName ELSE <<>>,
         hasDefault    |-> HasTag(f, TagDefault),
         defaultValue  |-> TagGet(f, TagDefault),
         required      |-> HasTag(f, TagRequired) /\ isTrue(f.tags[TagRequired]) ]

\* The prefix handed to the walk of a child struct.
childPrefix(f, prefix) ==
    LET keyPrefix == IF prefix # <<>> THEN prefix \o <<".">> ELSE <<>>
        split     == HasTag(f, TagSplitWords) /\ isTrue(f.tags[TagSplitWords])
        name      == IF split /\ splitWords(f.name, <<".">>) # <<>>
                     THEN splitWords(f.name, <<".">>) ELSE f.name
    IN IF HasTag(f, TagPrefix) THEN keyPrefix \o f.tags[TagPrefix]
       ELSE keyPrefix \o name

\* getDefinitionsForStruct, from field i of struct type T on: the fields in
\* declaration order, a child struct replaced by its own definitions.
RECURSIVE getDefinitionsFrom(_, _, _, _, _)
getDefinitionsFrom(T, i, base, prefix, rec) ==
    IF i > Len(TypeTable[T]) THEN <<>>
    ELSE LET f    == TypeTable[T][i]
             path == base \o <<i>>
             here ==
                 IF skipField(f) THEN <<>>
                 ELSE IF f.kind = "struct" /\ ~f.decodable
                      THEN getDefinitionsFrom(f.elem, 1, path, childPrefix(f, prefix), rec)
                 ELSE IF f.kind \in unsupportedTypes THEN <<>>
                 ELSE <<fieldDefinition(f, path, prefix, rec)>>
         IN here \o getDefinitionsFrom(T, i + 1, base, prefix, rec)

getDefinitionsForStruct(T, base, prefix, rec) == getDefinitionsFrom(T, 1, base, prefix, rec)

getDefinitions(T, rec) == getDefinitionsForStruct(T, <<>>, <<>>, rec)

\* The pointer fields the walk dereferences, each of which it sets to a new
\* zero value when it is nil: those of exported, not ignored fields, through
\* the structs it recurses into.
RECURSIVE visitedPtrs(_, _)
visitedPtrs(T, base) ==
    UNION { LET f == TypeTable[T][i]
            IN IF skipField(f) THEN {}
               ELSE (IF f.ptr THEN {base \o <<i>>} ELSE {})
                    \cup (IF f.kind = "struct" /\ ~f.decodable
                          THEN visitedPtrs(f.elem, base \o <<i>>) ELSE {})
            : i \in 1..Len(TypeTable[T]) }

\* The walk goes into field f: an exported, not ignored struct (behind any
\* pointers) that cannot decode itself.
Descends(f) ==
    /\ ~skipField(f)
    /\ f.kind = "struct" /\ ~f.decodable

\* The struct types the walk of T calls itself for, directly and in all.
Children(T) ==
    UNION { { fields[i].elem : i \in { j \in 1..Len(fields) : Descends(fields[j]) } }
            : fields \in {TypeTable[T]} }

RECURSIVE ReachFrom(_, _)
ReachFrom(S, seen) ==
    UNION { IF new = {} THEN seen
            ELSE UNION { ReachFrom(new, all) : all \in {seen \cup new} }
            : new \in { UNION { Children(T) : T \in S } \ seen } }

Reach(T) == ReachFrom({T}, {})

\* The walk of T comes to a type that contains itself: every call makes
\* another, each on a pointee it found or has just allocated.
Endless(T) == \E U \in Reach(T) \cup {T} : U \in Reach(U)

\* The field through which the walk of an endless T calls itself.
DescentField(T) ==
    CHOOSE i \in 1..Len(TypeTable[T]) :
        /\ Descends(TypeTable[T][i]) /\ Endless(TypeTable[T][i].elem)
        /\ \A j \in 1..(i - 1) :
              ~(Descends(TypeTable[T][j]) /\ Endless(TypeTable[T][j].elem))

\* The pointer fields of a newly allocated T, all nil.
NewPtrs(T, base) ==
    { base \o <<i>> : i \in { j \in 1..Len(TypeTable[T]) : TypeTable[T][j].ptr } }

\* ------------------------------------------------------------ viper store

\* A partial map as a function; Put adds or replaces one entry.
EmptyMap == [k \in {} |-> <<>>]

Put(f, k, v) == [x \in DOMAIN f \cup {k} |-> IF x = k THEN v ELSE f[x]]

\* viper.New(): the layers Load uses.  Keys are case-insensitive: every
\* operation lower-cases its key.  pflags holds, per key, the bound flag
\* (its name, whether parsing changed it, its value, and whether it belongs
\* to the flag set of the Load in progress).
NewViper ==
    [override |-> EmptyMap, pflags |-> EmptyMap, env |-> EmptyMap,
     defaults |-> EmptyMap, envPrefix |-> <<>>]

\* c.viper.Set(key, value): the override layer keeps the Go value.
viperSet(store, key, kind, value) ==
    [store EXCEPT !.override = Put(@, ToLower(key), [kind |-> kind, v |-> value])]

\* flags.String(alias, "", usage); c.viper.BindPFlag(key, flags.Lookup(alias))
viperBindPFlag(store, key, alias) ==
    [store EXCEPT !.pflags = Put(@, ToLower(key),
        [alias |-> alias, changed |-> FALSE, value |-> <<>>, cur |-> TRUE])]

\* c.viper.BindEnv(key, name)
viperBindEnv(store, key, name) ==
    [store EXCEPT !.env = Put(@, ToLower(key), name)]

\* c.viper.SetDefault(key, value)
viperSetDefault(store, key, value) ==
    [store EXCEPT !.defaults = Put(@, ToLower(key), value)]

\* os.Getenv
Getenv(environ, name) == IF name \in DOMAIN environ THEN environ[name] ELSE <<>>

\* A lookup that ranks the environment variable above the flag.
viperFindEnvFirst(store, environ, key) ==
    LET k == ToLower(key)
    IN IF k \in DOMAIN store.override
       THEN [set |-> TRUE, kind |-> store.override[k].kind, v |-> store.override[k].v]
       ELSE IF k \in DOMAIN store.env /\ Getenv(environ, store.env[k]) # <<>>
       THEN [set |-> TRUE, kind |-> "string", v |-> Getenv(environ, store.env[k])]
       ELSE IF k \in DOMAIN store.pflags
       THEN [set |-> TRUE, kind |-> "string", v |-> store.pflags[k].value]
       ELSE IF k \in DOMAIN store.defaults
       THEN [set |-> TRUE, kind |-> "string", v |-> store.defaults[k]]
       ELSE [set |-> FALSE, kind |-> "string", v |-> <<>>]

\* viper's lookup: override, then a flag that parsing changed, then a bound
\* environment variable that is not empty, then the default, and last a
\* bound flag's value even when it was not changed.  set is FALSE when the
\* lookup finds nothing (nil).
viperFind(store, environ, key) ==
    LET k == ToLower(key)
    IN IF k \in DOMAIN store.override
       THEN [set |-> TRUE, kind |-> store.override[k].kind, v |-> store.override[k].v]
       ELSE IF k \in DOMAIN store.pflags /\ store.pflags[k].changed
       THEN [set |-> TRUE, kind |-> "string", v |-> store.pflags[k].value]
       ELSE IF k \in DOMAIN store.env /\ Getenv(environ, store.env[k]) # <<>>
       THEN [set |-> TRUE, kind |-> "string", v |-> Getenv(environ, store.env[k])]
       ELSE IF k \in DOMAIN store.defaults
       THEN [set |-> TRUE, kind |-> "string", v |-> store.defaults[k]]
       ELSE IF k \in DOMAIN store.pflags
       THEN [set |-> TRUE, kind |-> "string", v |-> store.pflags[k].value]
       ELSE [set |-> FALSE, kind |-> "string", v |-> <<>>]

\* c.viper.IsSet(key)
viperIsSet(store, environ, key) == viperFind(store, environ, key).set

\* fmt.Sprintf("%v", c.viper.Get(key))
viperGetString(store, environ, key) ==
    LET r == viperFind(store, environ, key) IN FormatV(r.kind, r.v)

\* ------------------------------------------------------------ pflag parser

\* A parser that knows no help request: --help and -h are unknown flags.
parseArgsHelpless(args, formal, vals) ==
    IF \E i \in 1..Len(args) : args[i] \in {<<"-","-","h","e","l","p">>, <<"-","h">>}
    THEN [err |-> FlagError(<<"-","-","h","e","l","p">>), vals |-> vals, usage |-> FALSE]
    ELSE [err |-> NoError, vals |-> vals, usage |-> FALSE]

\* FlagSet.Parse(arguments) for a set of string flags without shorthands,
\* from the remaining arguments on.  vals maps the flags set so far to their
\* values; usage tells whether the Usage function was called.  Arguments
\* that are no flags are skipped, "--" ends the flags, an undeclared --help
\* or -h calls Usage and yields pflag.ErrHelp.
RECURSIVE parseArgs(_, _, _)
parseArgs(args, formal, vals) ==
    IF Len(args) = 0 THEN [err |-> NoError, vals |-> vals, usage |-> FALSE]
    ELSE LET s    == args[1]
             rest == Tail(args)
         IN IF Len(s) = 0 \/ s[1] # "-" \/ Len(s) = 1
            THEN parseArgs(rest, formal, vals)
            ELSE IF s[2] # "-"
            THEN IF s[2] = "h"
                 THEN [err |-> ErrFlagHelp, vals |-> vals, usage |-> TRUE]
                 ELSE [err |-> FlagError(s), vals |-> vals, usage |-> FALSE]
            ELSE IF Len(s) = 2
            THEN [err |-> NoError, vals |-> vals, usage |-> FALSE]
            ELSE LET long == Tail_(s, 3)
                     eq   == IndexOf("=", long)
                     name == IF eq > 0 THEN SubSeq(long, 1, eq - 1) ELSE long
                 IN IF long[1] \in {"-", "="}
                    THEN [err |-> FlagError(s), vals |-> vals, usage |-> FALSE]
                    ELSE IF name \notin formal
                    THEN IF name = <<"h","e","l","p">>
                         THEN [err |-> ErrFlagHelp, vals |-> vals, usage |-> TRUE]
                         ELSE [err |-> FlagError(s), vals |-> vals, usage |-> FALSE]
                    ELSE IF eq > 0
                    THEN parseArgs(rest, formal, Put(vals, name, Tail_(long, eq + 1)))
                    ELSE IF Len(rest) > 0
                    THEN parseArgs(Tail(rest), formal, Put(vals, name, rest[1]))
                    ELSE [err |-> FlagError(s), vals |-> vals, usage |-> FALSE]

\* The store after parsing: the flags of the current flag set that parsing
\* set are changed and carry their values.
applyParsed(store, vals) ==
    LET pf == store.pflags
    IN [store EXCEPT !.pflags =
          [k \in DOMAIN pf |->
              IF pf[k].cur /\ pf[k].alias \in DOMAIN vals
              THEN [alias |-> pf[k].alias, changed |-> TRUE,
                    value |-> vals[pf[k].alias], cur |-> TRUE]
              ELSE pf[k]]]

\* ----------------------------------------------------------- Load's passes

\* A merge that leaves the prefix out.
mergeWithoutPrefix(envPrefix, in) == ToUpper(in)

\* mergeWithEnvPrefix
mergeWithEnvPrefix(envPrefix, in) ==
    IF envPrefix # <<>> THEN ToUpper(envPrefix \o <<"_">> \o in) ELSE ToUpper(in)

\* A new flag set: the flags bound by earlier Loads stay in the store and
\* belong to their own, earlier flag sets.
newFlagSet(store) ==
    LET pf == store.pflags
    IN [store EXCEPT !.pflags =
          [k \in DOMAIN pf |-> [pf[k] EXCEPT !.cur = FALSE]]]

\* if def.hasOverride { c.viper.Set(def.key, def.overrideValue) }
withOverride(store, def) ==
    IF def.hasOverride THEN viperSet(store, def.key, def.kind, def.overrideValue)
    ELSE store

\* if def.hasFlag { flags.String(...); c.viper.BindPFlag(def.key, flag) }
withFlag(store, def) ==
    IF def.hasFlag THEN viperBindPFlag(store, def.key, def.flagAlias) ELSE store

\* if def.hasEnv { c.viper.BindEnv(def.key, c.mergeWithEnvPrefix(def.envAlias)) }
withEnv(store, def, envPrefix) ==
    IF def.hasEnv
    THEN viperBindEnv(store, def.key, mergeWithEnvPrefix(envPrefix, def.envAlias))
    ELSE store

\* if def.hasDefault { c.viper.SetDefault(def.key, def.defaultValue) }
withDefault(store, def) ==
    IF def.hasDefault THEN viperSetDefault(store, def.key, def.defaultValue) ELSE store

\* A loop body that asks for the parse whether the definition has a flag or
\* not.
registerOneParsing(st, def, envPrefix) ==
    IF def.hasFlag /\ def.flagAlias \in st.formal
    THEN [store |-> withOverride(st.store, def), formal |-> st.formal,
          parseFlags |-> TRUE, panic |-> TRUE]
    ELSE [store |-> withDefault(withEnv(withFlag(withOverride(st.store, def), def),
                                        def, envPrefix), def),
          formal |-> IF def.hasFlag THEN st.formal \cup {def.flagAlias} ELSE st.formal,
          parseFlags |-> TRUE,
          panic |-> FALSE]

\* One definition loaded into the store: override, flag, environment
\* variable, default, in the order of the loop body.  formal is the set
\* of flag names declared so far; declaring a name twice makes pflag panic,
\* after the definition's override was set.
registerOne(st, def, envPrefix) ==
    IF def.hasFlag /\ def.flagAlias \in st.formal
    THEN [store |-> withOverride(st.store, def), formal |-> st.formal,
          parseFlags |-> TRUE, panic |-> TRUE]
    ELSE [store |-> withDefault(withEnv(withFlag(withOverride(st.store, def), def),
                                        def, envPrefix), def),
          formal |-> IF def.hasFlag THEN st.formal \cup {def.flagAlias} ELSE st.formal,
          parseFlags |-> st.parseFlags \/ def.hasFlag,
          panic |-> FALSE]

\* The loop that loads the definitions into the store, from definition i on.
RECURSIVE registerFrom(_, _, _, _)
registerFrom(defs, i, st, envPrefix) ==
    IF i > Len(defs) \/ st.panic THEN st
    ELSE registerFrom(defs, i + 1, registerOne(st, defs[i], envPrefix), envPrefix)

registerDefinitions(defs, store, envPrefix) ==
    registerFrom(defs, 1,
        [store |-> newFlagSet(store), formal |-> {}, parseFlags |-> FALSE, panic |-> FALSE],
        envPrefix)

\* Where the record of a Load notes, for the field at a path, the method
\* that decoded it.
Via(path) == <<0>> \o path

\* The field set to the result r of its coercion.
stored(def, rec, r) ==
    [err |-> r.err,
     rec |-> IF "via" \in DOMAIN r
             THEN Put([rec EXCEPT ![def.field] = r.v], Via(def.field), r.via)
             ELSE [rec EXCEPT ![def.field] = r.v]]

\* The resolved value's text coerced into the field as it is.
applyValueRaw(def, rec, text) ==
    stored(def, rec, processField(def.kind, def.caps, rec[def.field], text))

\* The resolved value's text coerced into the field: an empty text is
\* replaced by the text of the zero value of the field's type.
applyValue(def, rec, text) ==
    stored(def, rec,
           processField(def.kind, def.caps, rec[def.field],
                        IF text = <<>> THEN FormatV(def.kind, ZeroOf(def.kind))
                        ELSE text))

\* An apply step for which every definition is required.
applyOneStrict(def, store, environ, rec) ==
    IF ~viperIsSet(store, environ, def.key)
    THEN [err |-> RequiredError(def.key), rec |-> rec]
    ELSE applyValue(def, rec, viperGetString(store, environ, def.key))

\* One definition applied to the record: the error and the record after it.
applyOne(def, store, environ, rec) ==
    IF ~viperIsSet(store, environ, def.key)
    THEN IF def.required
         THEN [err |-> RequiredError(def.key), rec |-> rec]
         ELSE [err |-> NoError, rec |-> rec]
    ELSE applyValue(def, rec, viperGetString(store, environ, def.key))

\* The loop that applies the configuration values, from definition i on: it
\* returns at the first error (r is the outcome of definition i).
RECURSIVE applyFrom(_, _, _, _, _)
RECURSIVE applyNext(_, _, _, _, _)
\* A loop that keeps the first error and goes on to the end of the list.
applyNextOn(defs, i, store, environ, r) ==
    IF r.err # NoError
    THEN [err |-> r.err, rec |-> applyFrom(defs, i + 1, store, environ, r.rec).rec]
    ELSE applyFrom(defs, i + 1, store, environ, r.rec)

applyNext(defs, i, store, environ, r) ==
    IF r.err # NoError THEN r ELSE applyFrom(defs, i + 1, store, environ, r.rec)

applyFrom(defs, i, store, environ, rec) ==
    IF i > Len(defs) THEN [err |-> NoError, rec |-> rec]
    ELSE CHOOSE res \in { applyNext(defs, i, store, environ, r) :
                           r \in {applyOne(defs[i], store, environ, rec)} } : TRUE

applyDefinitions(defs, store, environ, rec) == applyFrom(defs, 1, store, environ, rec)

\* ------------------------------------------------------------------ inputs

Procs == {"p1", "p2"}

Prog == <<"p","r","o","g">>

ArgsFlags == <<Prog, <<"-","-","a">>, <<"x">>, <<"-","-","n">>, <<"3">>>>

ArgsHelp == <<Prog, <<"-","-","h","e","l","p">>>>

ArgsFlagsHelp == <<Prog, <<"-","-","a">>, <<"x">>, <<"-","h">>>>

ArgsOther == << <<"o","t","h","e","r">> >>

ArgsEmptyValues ==
    <<Prog, <<"-","-","i","=">>, <<"-","-","h","=">>, <<"-","-","u","=">>,
            <<"-","-","f","=">>, <<"-","-","b","=">>>>

EnvSet == (<<"A">> :> <<"e">>) @@ (<<"N">> :> <<"3","0","0">>)
              @@ (<<"A","P","P","_","A">> :> <<"p">>)
              @@ (<<"S","U","B","_","V","A","L","U","E">> :> <<"b">>)
              @@ (<<"A","P","P","_","S","U","B","_","V","A","L","U","E">> :> <<"c">>)

\* The records Load is given: per struct type, the field values (by path)
\* and the pointer fields that are nil.  A struct that decodes itself is
\* held as a whole, by what its method stored, and its field is listed
\* beneath it.
PrecRec(a, n) == (<<1>> :> a) @@ (<<2>> :> n) @@ (<<3>> :> <<>>)

ReqRec(n, z, q, o) ==
    (<<1>> :> <<>>) @@ (<<2>> :> o) @@ (<<3>> :> n) @@ (<<4>> :> z) @@ (<<5>> :> q)

KindsRec(i, h, b) ==
    (<<1>> :> i) @@ (<<2>> :> h) @@ (<<3>> :> 0) @@ (<<4>> :> <<"0">>) @@ (<<5>> :> b)

TwinRec(l, m) == (<<1, 1>> :> l) @@ (<<2, 1>> :> m)

TypesRec(s, n, f, b, d) ==
    (<<1>> :> s) @@ (<<2>> :> n) @@ (<<3>> :> n) @@ (<<4>> :> n) @@ (<<5>> :> f)
      @@ (<<6>> :> b) @@ (<<7>> :> 10 * n) @@ (<<8>> :> d) @@ (<<9>> :> d)
      @@ (<<10>> :> d) @@ (<<11>> :> d) @@ (<<12>> :> d) @@ (<<13>> :> d)
      @@ (<<10, 1>> :> d) @@ (<<13, 1>> :> d) @@ (<<14, 1>> :> s)

HidRec(g, k) ==
    (<<1>> :> g) @@ (<<2, 1>> :> k) @@ (<<3, 1>> :> <<>>) @@ (<<4>> :> <<>>)
      @@ (<<5>> :> <<>>) @@ (<<6>> :> <<>>)

EmbRec(e) == (<<1, 1>> :> e) @@ (<<2, 1, 1>> :> <<>>) @@ (<<3>> :> <<>>)

AliasRec ==
    (<<1>> :> <<>>) @@ (<<2>> :> <<>>) @@ (<<3, 1>> :> <<>>) @@ (<<4, 1>> :> <<>>)
      @@ (<<5, 1, 1>> :> <<>>) @@ (<<6, 1>> :> <<>>)

Records(T) ==
    CASE T = "Prec" ->
           { [rec |-> PrecRec(<<>>, 0), nilp |-> {}],
             [rec |-> PrecRec(<<"o">>, 5), nilp |-> {}],
             [rec |-> PrecRec(<<>>, 5), nilp |-> {}] }
      [] T = "Req" ->
           { [rec |-> ReqRec(0, <<>>, <<>>, <<>>), nilp |-> {}],
             [rec |-> ReqRec(1, <<>>, <<>>, <<>>), nilp |-> {}],
             [rec |-> ReqRec(1, <<"k">>, <<"u">>, <<"w">>), nilp |-> {}] }
      [] T = "Kinds" ->
           { [rec |-> KindsRec(0, 0, FALSE), nilp |-> {}],
             [rec |-> KindsRec(2, 4, TRUE), nilp |-> {}] }
      [] T = "Twin" ->
           { [rec |-> TwinRec(<<>>, <<>>), nilp |-> {<<2>>}],
             [rec |-> TwinRec(<<"l">>, <<"m">>), nilp |-> {}] }
      [] T = "Must" -> { [rec |-> (<<1>> :> <<>>), nilp |-> {}] }
      [] T = "Plain" ->
           { [rec |-> (<<1>> :> a), nilp |-> {}] : a \in {<<>>, <<"w">>} }
      [] T = "Outer" -> { [rec |-> (<<1, 1>> :> <<>>), nilp |-> {}] }
      [] T = "Types" ->
           { [rec |-> TypesRec(<<>>, 0, <<"0">>, FALSE, <<>>), nilp |-> {}],
             [rec |-> TypesRec(<<"s">>, 1, <<"1">>, TRUE, <<"v">>), nilp |-> {}] }
      [] T = "Hid" ->
           { [rec |-> HidRec(<<>>, <<>>), nilp |-> {<<2>>}],
             [rec |-> HidRec(<<"h">>, <<"k">>), nilp |-> {}] }
      [] T = "Emb" ->
           { [rec |-> EmbRec(e), nilp |-> {}] : e \in {<<>>, <<"e">>} }
      [] T = "Alias" -> { [rec |-> AliasRec, nilp |-> {}] }
      [] T = "Node" ->
           { [rec |-> (<<1>> :> <<>>), nilp |-> {<<2>>}],
             [rec |-> (<<1>> :> <<"v">>), nilp |-> {}] }
      [] T = "Ping" -> { [rec |-> EmptyMap, nilp |-> {<<1>>}] }

\* What Load can be passed: a struct pointer, a value that is no pointer, a
\* pointer to a value that is no struct (here a string).
Shapes == {"structptr", "value", "ptr"}

NonStruct == (<<0>> :> <<"s">>)

\* What the callers do, by scope: "seq" is one caller with every input,
\* "conc" is two concurrent callers with few inputs.
Callers(scope) == IF scope = "seq" THEN {"p1"} ELSE Procs

\* os.Args when the Configurator is made.
StartArgs(scope) ==
    IF scope = "seq" THEN {<<Prog>>, ArgsFlags, ArgsHelp, ArgsFlagsHelp, ArgsEmptyValues}
    ELSE {ArgsHelp}

\* The process environment, fixed for a run.
Environments(scope) == IF scope = "seq" THEN {EmptyMap, EnvSet} ELSE {EmptyMap}

\* What SetArgs, SetEnvPrefix, SetName and SetOutput are given.  Output
\* sinks: "nil" is the unset writer, "stderr" is os.Stderr.
ArgVectors(scope) == IF scope = "seq" THEN {ArgsFlags, ArgsOther, <<>>} ELSE {<<Prog>>}

EnvPrefixes == { <<"a","p","p">> }

Names == { <<"s","v","c">> }

Sinks == { "buf" }

\* The struct pointers Load is given.
Schemas ==
    {"Prec", "Req", "Kinds", "Twin", "Must", "Plain", "Outer", "Types", "Hid", "Emb",
     "Alias", "Node", "Ping"}

Targets(scope, T) ==
    IF scope = "seq" THEN Records(T)
    ELSE CASE T = "Prec" -> { [rec |-> PrecRec(<<>>, 0), nilp |-> {}] }
           [] T = "Plain" -> { [rec |-> (<<1>> :> <<"w">>), nilp |-> {}] }
           [] T = "Node" -> { [rec |-> (<<1>> :> <<>>), nilp |-> {<<2>>}] }
           [] OTHER -> {}

\* ------------------------------------------------------------------- state

VARIABLES
    name,       \* Configurator.name
    args,       \* Configurator.args
    envPrefix,  \* Configurator.envPrefix
    output,     \* Configurator.output
    viper,      \* Configurator.viper
    mu,         \* Configurator.mu: "free" or the caller holding it
    environ,    \* the process environment
    written,    \* usage texts written: <<sink, name in the header>>
    pc,         \* where each caller is in its call
    loc,        \* each caller's call: operation, arguments, locals, result
    calls,      \* calls started
    scope       \* who calls and with what: "seq" or "conc"

vars == <<name, args, envPrefix, output, viper, mu, environ, written, pc, loc,
          calls, scope>>

cfg == <<name, args, envPrefix, output, viper, mu>>

\* A caller that is in no call.
IdleLoc ==
    [op |-> "none", arg |-> <<>>, shape |-> "", T |-> "",
     rec0 |-> EmptyMap, rec |-> EmptyMap, nil0 |-> {}, nilp |-> {},
     defs |-> <<>>, formal |-> {}, parseFlags |-> FALSE, parsed |-> FALSE,
     vals |-> EmptyMap, store1 |-> NewViper, args1 |-> <<>>, name1 |-> <<>>,
     applied |-> FALSE, locked |-> FALSE, err |-> NoError,
     depth |-> 0, walkT |-> "", walkPath |-> <<>>]

PanicError == [t |-> "panic", msg |-> <<>>]

\* NewConfigurator: args is os.Args, the store is new, the rest is zero.
InitScope(sc) ==
    /\ scope = sc
    /\ name = <<>>
    /\ args \in StartArgs(sc)
    /\ envPrefix = <<>>
    /\ output = "nil"
    /\ viper = NewViper
    /\ mu = "free"
    /\ environ \in Environments(sc)
    /\ written = {}
    /\ pc = [p \in Procs |-> "idle"]
    /\ loc = [p \in Procs |-> IdleLoc]
    /\ calls = 0

Init == InitScope("seq")

InitConc == InitScope("conc")

\* A Configurator whose SetArgs takes no lock.
LocksButSetArgs(op) == op \in {"SetEnvPrefix", "SetName", "Load"}

\* The operations that take the Configurator's lock.
Locks(op) == op \in {"SetEnvPrefix", "SetName", "SetArgs", "Load"}

\* defer c.mu.Unlock() at the return of a call that holds the lock
Unlock(p) == IF mu = p THEN "free" ELSE mu

\* c.out(): the writer, which becomes os.Stderr when it is unset
out == IF output = "nil" THEN "stderr" ELSE output

\* --------------------------------------------------------------- setters

\* A caller enters a setter: SetEnvPrefix, SetName and SetArgs go for the
\* lock, SetOutput goes straight to its assignment.
CallSetter(p, op, arg) ==
    /\ pc[p] = "idle"
    /\ calls < MaxCalls
    /\ calls' = calls + 1
    /\ loc' = [loc EXCEPT ![p] = [IdleLoc EXCEPT !.op = op, !.arg = arg]]
    /\ pc' = [pc EXCEPT ![p] = IF Locks(op) THEN "lock" ELSE "set"]
    /\ UNCHANGED <<name, args, envPrefix, output, viper, mu, environ, written, scope>>

\* c.mu.Lock()
Lock(p) ==
    /\ pc[p] = "lock"
    /\ mu = "free"
    /\ mu' = p
    /\ pc' = [pc EXCEPT ![p] = IF loc[p].op = "Load" THEN "register" ELSE "set"]
    /\ loc' = [loc EXCEPT ![p].locked = TRUE]
    /\ UNCHANGED <<name, args, envPrefix, output, viper, environ, written, calls, scope>>

SetEnvPrefix(p) ==
    /\ pc[p] = "set" /\ loc[p].op = "SetEnvPrefix"
    /\ envPrefix' = loc[p].arg
    /\ viper' = [viper EXCEPT !.envPrefix = loc[p].arg]
    /\ mu' = Unlock(p)
    /\ pc' = [pc EXCEPT ![p] = "ret"]
    /\ UNCHANGED <<name, args, output, environ, written, loc, calls, scope>>

SetName(p) ==
    /\ pc[p] = "set" /\ loc[p].op = "SetName"
    /\ name' = loc[p].arg
    /\ mu' = Unlock(p)
    /\ pc' = [pc EXCEPT ![p] = "ret"]
    /\ UNCHANGED <<args, envPrefix, output, viper, environ, written, loc, calls, scope>>

SetArgs(p) ==
    /\ pc[p] = "set" /\ loc[p].op = "SetArgs"
    /\ args' = loc[p].arg
    /\ mu' = Unlock(p)
    /\ pc' = [pc EXCEPT ![p] = "ret"]
    /\ UNCHANGED <<name, envPrefix, output, viper, environ, written, loc, calls, scope>>

SetOutput(p) ==
    /\ pc[p] = "set" /\ loc[p].op = "SetOutput"
    /\ output' = loc[p].arg
    /\ mu' = Unlock(p)
    /\ pc' = [pc EXCEPT ![p] = "ret"]
    /\ UNCHANGED <<name, args, envPrefix, viper, environ, written, loc, calls, scope>>

\* ------------------------------------------------------------------ Load

\* Shape checks that answer with each other's error.
shapeErrorSwapped(shape) ==
    IF shape = "value" THEN ErrNotStruct
    ELSE IF shape = "ptr" THEN ErrNotStructPointer
    ELSE NoError

\* The error of Load's checks of what it was passed: ptr.Kind() != reflect.Ptr,
\* then elem.Kind() != reflect.Struct.
shapeError(shape) ==
    IF shape = "value" THEN ErrNotStructPointer
    ELSE IF shape = "ptr" THEN ErrNotStruct
    ELSE NoError

\* A Load that takes the name from the argument vector whenever it can.
resolveNameAlways(cname, cargs) == IF Len(cargs) > 0 THEN cargs[1] ELSE cname

\* if c.name == "" { c.name = c.args[0] }
resolveName(cname, cargs) == IF cname = <<>> THEN cargs[1] ELSE cname

\* Load's checks of what it was passed, before the lock.
CallLoad(p, shape, T, r) ==
    /\ pc[p] = "idle"
    /\ calls < MaxCalls
    /\ calls' = calls + 1
    /\ loc' = [loc EXCEPT ![p] =
          [IdleLoc EXCEPT !.op = "Load", !.shape = shape, !.T = T, !.walkT = T,
                          !.rec0 = r.rec, !.rec = r.rec,
                          !.nil0 = r.nilp, !.nilp = r.nilp,
                          !.err = shapeError(shape)]]
    /\ pc' = [pc EXCEPT ![p] = IF shapeError(shape) # NoError THEN "ret"
                               ELSE IF Locks("Load") THEN "lock" ELSE "register"]
    /\ UNCHANGED <<name, args, envPrefix, output, viper, mu, environ, written, scope>>

\* From the lock to the end of the loop that loads the definitions into the
\* store: the name defaults to args[0] (an index out of range when args is
\* empty), the flag set is created on c.out(), the definitions are
\* extracted (nil pointers on the way are set) and registered.
LoadRegister(p) ==
    /\ pc[p] = "register"
    /\ (name = <<>> /\ Len(args) = 0) \/ ~Endless(loc[p].T)
    /\ IF name = <<>> /\ Len(args) = 0
       THEN /\ loc' = [loc EXCEPT ![p].err = PanicError]
            /\ mu' = Unlock(p)
            /\ pc' = [pc EXCEPT ![p] = "ret"]
            /\ UNCHANGED <<name, output, viper>>
       ELSE \E defs \in {getDefinitions(loc[p].T, loc[p].rec)} :
            \E reg \in {registerDefinitions(defs, viper, envPrefix)} :
               /\ name' = resolveName(name, args)
               /\ output' = out
               /\ viper' = reg.store
               /\ loc' = [loc EXCEPT ![p].defs = defs,
                                     ![p].nilp = @ \ visitedPtrs(loc[p].T, <<>>),
                                     ![p].formal = reg.formal,
                                     ![p].parseFlags = reg.parseFlags,
                                     ![p].err = IF reg.panic THEN PanicError ELSE NoError]
               /\ mu' = IF reg.panic THEN Unlock(p) ELSE mu
               /\ pc' = [pc EXCEPT ![p] = IF reg.panic THEN "ret" ELSE "parse"]
    /\ UNCHANGED <<args, envPrefix, environ, written, calls, scope>>

\* One call of getDefinitionsForStruct on a type that contains itself, up
\* to the call it makes for the field that leads back: the pointer is set
\* to a new zero value when it is nil, and the pointee is walked.  The
\* calls never return; when the stack is full the runtime ends the process.
LoadWalk(p) ==
    /\ pc[p] = "register"
    /\ ~(name = <<>> /\ Len(args) = 0)
    /\ Endless(loc[p].T)
    /\ name' = resolveName(name, args)
    /\ output' = out
    /\ IF loc[p].depth = MaxDepth
       THEN /\ pc' = [pc EXCEPT ![p] = "fatal"]
            /\ loc' = loc
       ELSE \E i \in {DescentField(loc[p].walkT)} :
            \E path \in {loc[p].walkPath \o <<i>>} :
            \E U \in {TypeTable[loc[p].walkT][i].elem} :
               /\ loc' = [loc EXCEPT
                     ![p].depth = @ + 1,
                     ![p].walkT = U,
                     ![p].walkPath = path,
                     ![p].nilp = IF path \in @ THEN (@ \ {path}) \cup NewPtrs(U, path)
                                 ELSE @]
               /\ pc' = pc
    /\ UNCHANGED <<args, envPrefix, viper, mu, environ, written, calls, scope>>

\* The flags are parsed only if a definition has one; an error returns.
LoadParse(p) ==
    /\ pc[p] = "parse"
    /\ IF ~loc[p].parseFlags
       THEN /\ pc' = [pc EXCEPT ![p] = "apply"]
            /\ UNCHANGED <<output, viper, mu, written, loc>>
       ELSE \E r \in {parseArgs(args, loc[p].formal, EmptyMap)} :
               /\ viper' = applyParsed(viper, r.vals)
               /\ output' = IF r.usage THEN out ELSE output
               /\ written' = IF r.usage THEN written \cup {<<out, name>>} ELSE written
               /\ loc' = [loc EXCEPT ![p].parsed = TRUE, ![p].vals = r.vals,
                                     ![p].args1 = args, ![p].name1 = name,
                                     ![p].err = r.err]
               /\ mu' = IF r.err # NoError THEN Unlock(p) ELSE mu
               /\ pc' = [pc EXCEPT ![p] = IF r.err # NoError THEN "ret" ELSE "apply"]
    /\ UNCHANGED <<name, args, envPrefix, environ, calls, scope>>

\* The loop that applies the configuration values, and the return.
LoadApply(p) ==
    /\ pc[p] = "apply"
    /\ \E r \in {applyDefinitions(loc[p].defs, viper, environ, loc[p].rec)} :
          loc' = [loc EXCEPT ![p].rec = r.rec, ![p].err = r.err,
                             ![p].store1 = viper, ![p].applied = TRUE]
    /\ mu' = Unlock(p)
    /\ pc' = [pc EXCEPT ![p] = "ret"]
    /\ UNCHANGED <<name, args, envPrefix, output, viper, environ, written, calls, scope>>

\* The caller has its result and is free for its next call.
Return(p) ==
    /\ pc[p] = "ret"
    /\ pc' = [pc EXCEPT ![p] = "idle"]
    /\ loc' = [loc EXCEPT ![p] = IdleLoc]
    /\ UNCHANGED <<name, args, envPrefix, output, viper, mu, environ, written, calls, scope>>

\* The callers that can take a step: none once the runtime has ended the
\* process.
Running == IF \E q \in Procs : pc[q] = "fatal" THEN {} ELSE Callers(scope)

CallSetEnvPrefix ==
    \E p \in Running : \E x \in EnvPrefixes : CallSetter(p, "SetEnvPrefix", x)

CallSetName ==
    \E p \in Running : \E x \in Names : CallSetter(p, "SetName", x)

CallSetArgs ==
    \E p \in Running : \E x \in ArgVectors(scope) : CallSetter(p, "SetArgs", x)

CallSetOutput ==
    \E p \in Running : \E x \in Sinks : CallSetter(p, "SetOutput", x)

CallLoadStruct ==
    \E p \in Running :
        /\ pc[p] = "idle"
        /\ \E T \in Schemas : \E r \in Targets(scope, T) : CallLoad(p, "structptr", T, r)

CallLoadOther ==
    \E p \in Running : \E s \in Shapes \ {"structptr"} :
        CallLoad(p, s, "", [rec |-> NonStruct, nilp |-> {}])

Next ==
    \/ CallSetEnvPrefix
    \/ CallSetName
    \/ CallSetArgs
    \/ CallSetOutput
    \/ CallLoadStruct
    \/ CallLoadOther
    \/ \E p \in Running : Lock(p)
    \/ \E p \in Running : SetEnvPrefix(p)
    \/ \E p \in Running : SetName(p)
    \/ \E p \in Running : SetArgs(p)
    \/ \E p \in Running : SetOutput(p)
    \/ \E p \in Running : LoadRegister(p)
    \/ \E p \in Running : LoadWalk(p)
    \/ \E p \in Running : LoadParse(p)
    \/ \E p \in Running : LoadApply(p)
    \/ \E p \in Running : Return(p)

\* One caller, every input.
Spec == Init /\ [][Next]_vars

\* Two concurrent callers.
SpecConc == InitConc /\ [][Next]_vars

\* Caller p is inside a call and can take its next step: it waits for a
\* lock that is free, or it is past the lock.  A Load walking a type that
\* contains itself moves by LoadWalk.
Walking(p) ==
    pc[p] = "register" /\ Endless(loc[p].T) /\ ~(name = <<>> /\ Len(args) = 0)

Moves(p) ==
    /\ p \in Running
    /\ \/ pc[p] = "lock" /\ mu = "free"
       \/ pc[p] \in {"set", "parse", "apply", "ret"}
       \/ pc[p] = "register" /\ ~Walking(p)

\* Caller p leaves the point of its call it is at: what Lock, the setters,
\* LoadRegister, LoadParse, LoadApply and Return do to pc.
Advance(p) ==
    /\ Moves(p)
    /\ \E next \in {"set", "register", "parse", "apply", "ret", "idle"} \ {pc[p]} :
          pc' = [pc EXCEPT ![p] = next]

\* A call that can go on does go on: the goroutine is scheduled, and the
\* mutex is handed to a caller that waits for it.
Fairness ==
    \A p \in Procs : WF_pc(Advance(p)) /\ WF_vars(p \in Running /\ LoadWalk(p))

\* One caller, every input, every started call going on while it can.
SpecFair == Init /\ [][Next]_vars /\ Fairness

\* ------------------------------------------------------ what Load returned

\* Caller p has a Load's result in hand; the Load ran its apply pass; the
\* Load returned nil.
LoadDone(p) == pc[p] = "ret" /\ loc[p].op = "Load"

Applied(p) == LoadDone(p) /\ loc[p].applied

Succeeded(p) == Applied(p) /\ loc[p].err = NoError

\* The field of definition d, before the Load and after it, as text.
Before(p, d) == loc[p].rec0[d.field]

After(p, d) == loc[p].rec[d.field]

AfterText(p, d) == FormatV(d.kind, loc[p].rec[d.field])

\* The flag of definition d was supplied in the argument vector, and the
\* text it carried (an empty text stands for the zero value of the type).
FlagSupplied(p, d) == d.hasFlag /\ d.flagAlias \in DOMAIN loc[p].vals

FlagText(p, d) ==
    IF loc[p].vals[d.flagAlias] = <<>> THEN FormatV(d.kind, ZeroOf(d.kind))
    ELSE loc[p].vals[d.flagAlias]

\* The value of the environment variable definition d is bound to.
EnvText(d) ==
    IF d.hasEnv THEN Getenv(environ, mergeWithEnvPrefix(envPrefix, d.envAlias)) ELSE <<>>

\* The store the apply pass read holds an override for the key, a flag that
\* a parse has set, the value of an environment variable bound to the key.
StoreOverride(p, d) == ToLower(d.key) \in DOMAIN loc[p].store1.override

StoreFlagSet(p, d) ==
    /\ ToLower(d.key) \in DOMAIN loc[p].store1.pflags
    /\ loc[p].store1.pflags[ToLower(d.key)].changed

StoreEnvText(p, d) ==
    IF ToLower(d.key) \in DOMAIN loc[p].store1.env
    THEN Getenv(environ, loc[p].store1.env[ToLower(d.key)]) ELSE <<>>

\* ------------------------------------------------------------------ claims

\* C1: after a successful Load every field that held a non-zero value when
\* Load was called holds that same value, whatever a flag, an environment
\* variable or a default say.
C1_OverrideWins ==
    \A p \in Procs : Succeeded(p) =>
        \A i \in 1..Len(loc[p].defs) :
            loc[p].defs[i].hasOverride =>
                After(p, loc[p].defs[i]) = Before(p, loc[p].defs[i])

C3_EnvThenDefault ==
    \A p \in Procs : Succeeded(p) =>
        \A i \in 1..Len(loc[p].defs) :
            (~loc[p].defs[i].hasOverride /\ ~FlagSupplied(p, loc[p].defs[i])) =>
                /\ EnvText(loc[p].defs[i]) # <<>>
                       => AfterText(p, loc[p].defs[i]) = EnvText(loc[p].defs[i])
                /\ (EnvText(loc[p].defs[i]) = <<>> /\ loc[p].defs[i].hasDefault)
                       => AfterText(p, loc[p].defs[i]) = loc[p].defs[i].defaultValue

\* No source of definition d itself supplies a value: it has no override,
\* its flag is not supplied, its environment variable is not set.
Unsupplied(p, d) ==
    ~d.hasOverride /\ ~FlagSupplied(p, d) /\ EnvText(d) = <<>>

\* The apply pass of p's Load got as far as definition i.
ReachedAt(p, i) ==
    applyDefinitions(SubSeq(loc[p].defs, 1, i - 1), loc[p].store1, environ,
                     loc[p].rec0).err = NoError

\* C4: for a required definition that no source supplies a value for, a
\* Load that gets as far as it fails with "required field <key> missing
\* value" when it has no default, and does not fail on it and leaves the
\* default in the field when it has one.
C4_Required ==
    \A p \in Procs : Applied(p) =>
        \A i \in 1..Len(loc[p].defs) :
            (/\ loc[p].defs[i].required
             /\ Unsupplied(p, loc[p].defs[i])
             /\ ReachedAt(p, i)) =>
                IF loc[p].defs[i].hasDefault
                THEN /\ loc[p].err # RequiredError(loc[p].defs[i].key)
                     /\ loc[p].err = NoError
                            => AfterText(p, loc[p].defs[i]) = loc[p].defs[i].defaultValue
                ELSE loc[p].err = RequiredError(loc[p].defs[i].key)

\* C5: a Load of a value that is no pointer returns ErrNotStructPointer and
\* a Load of a pointer to a value that is no struct returns ErrNotStruct, at
\* once: the lock is not taken, nothing is extracted, and the name, the
\* store and the value passed are what they were before the call.
C5_ShapeErrors ==
    [][\A p \in Procs :
          (pc[p] = "idle" /\ loc'[p].op = "Load" /\ loc'[p].shape # "structptr") =>
              /\ pc'[p] = "ret"
              /\ loc'[p].shape = "value" => loc'[p].err = ErrNotStructPointer
              /\ loc'[p].shape = "ptr" => loc'[p].err = ErrNotStruct
              /\ ~loc'[p].locked /\ mu' = mu
              /\ loc'[p].defs = <<>>
              /\ name' = name /\ viper' = viper
              /\ loc'[p].rec = loc'[p].rec0]_vars

\* A Load of a pointer to a value that is no struct has returned ErrNotStruct
\* on a Configurator whose store an earlier Load has filled.
C5_Witness ==
    \E p \in Procs :
        /\ LoadDone(p) /\ loc[p].shape = "ptr" /\ loc[p].err = ErrNotStruct
        /\ ~loc[p].locked /\ mu = "free"
        /\ viper # NewViper /\ name # <<>>

\* The argument vector asks for help: the parse comes to --help (which is
\* no declared flag) or -h, that is, the arguments before it parse and do
\* not end the flags.
HelpFlags == {<<"-","-","h","e","l","p">>, <<"-","h">>}

HelpRequested(a, formal) ==
    \E i \in 1..Len(a) :
        /\ a[i] \in HelpFlags
        /\ a[i] = <<"-","h">> \/ <<"h","e","l","p">> \notin formal
        /\ parseArgs(SubSeq(a, 1, i - 1), formal, EmptyMap).err = NoError
        /\ \A j \in 1..(i - 1) : a[j] # <<"-","-">>

\* C6: when a flag is declared and the argument vector asks for help, Load
\* returns ErrFlagHelp and the usage text has been written to the output
\* sink; every other failure of the parse is returned as the parser's own
\* error; either way Load returns before its apply pass and no field of the
\* record has been assigned.
C6_ParseFailures ==
    \A p \in Procs : (LoadDone(p) /\ loc[p].parsed) =>
        /\ HelpRequested(loc[p].args1, loc[p].formal) =>
               /\ loc[p].err = ErrFlagHelp
               /\ <<out, loc[p].name1>> \in written
        /\ (loc[p].err # NoError /\ ~loc[p].applied) =>
               /\ \/ loc[p].err = ErrFlagHelp
                  \/ \E i \in 1..Len(loc[p].args1) : loc[p].err = FlagError(loc[p].args1[i])
               /\ loc[p].err = ErrFlagHelp => HelpRequested(loc[p].args1, loc[p].formal)
               /\ loc[p].rec = loc[p].rec0
        /\ loc[p].err = ErrFlagHelp => ~loc[p].applied

\* A Load of a record with a declared default was asked for help: it
\* returned ErrFlagHelp, the usage is written and the record is as it was.
C6_Witness ==
    \E p \in Procs :
        /\ LoadDone(p) /\ loc[p].parsed /\ HelpRequested(loc[p].args1, loc[p].formal)
        /\ loc[p].err = ErrFlagHelp
        /\ <<out, loc[p].name1>> \in written
        /\ \E i \in 1..Len(loc[p].defs) : loc[p].defs[i].hasDefault
        /\ loc[p].rec = loc[p].rec0

\* C7: when the apply pass fails, it fails at the first definition in order
\* that fails and returns that error: the fields of the definitions before
\* it hold the values resolved for them, the fields of the failing
\* definition and of those after it are as they were.
C7_StopsAtFirstFailure ==
    \A p \in Procs : (Applied(p) /\ loc[p].err # NoError) =>
        \E i \in 1..Len(loc[p].defs) :
            /\ \A j \in 1..(i - 1) :
                  applyOne(loc[p].defs[j], loc[p].store1, environ, loc[p].rec0)
                      = [err |-> NoError,
                         rec |-> [loc[p].rec0 EXCEPT ![loc[p].defs[j].field] =
                                     After(p, loc[p].defs[j])]]
            /\ applyOne(loc[p].defs[i], loc[p].store1, environ, loc[p].rec0).err = loc[p].err
            /\ \A j \in i..Len(loc[p].defs) :
                  After(p, loc[p].defs[j]) = Before(p, loc[p].defs[j])

\* An apply pass failed after it had changed an earlier field, and a later
\* definition, for which the store has another value, kept its field.
C7_Witness ==
    \E p \in Procs : Applied(p) /\ loc[p].err # NoError /\
        \E i, j, k \in 1..Len(loc[p].defs) :
            /\ j < i /\ i < k
            /\ applyOne(loc[p].defs[i], loc[p].store1, environ, loc[p].rec0).err = loc[p].err
            /\ After(p, loc[p].defs[j]) # Before(p, loc[p].defs[j])
            /\ viperIsSet(loc[p].store1, environ, loc[p].defs[k].key)
            /\ viperGetString(loc[p].store1, environ, loc[p].defs[k].key)
                   # FormatV(loc[p].defs[k].kind, Before(p, loc[p].defs[k]))
            /\ After(p, loc[p].defs[k]) = Before(p, loc[p].defs[k])

\* The key of definition d is set in the store and its value renders to the
\* empty string.
EmptyResolved(p, d) ==
    /\ viperIsSet(loc[p].store1, environ, d.key)
    /\ viperGetString(loc[p].store1, environ, d.key) = <<>>

NumericOrBool(kind) ==
    kind \in SignedKinds \cup UnsignedKinds \cup FloatKinds \cup {"int16", "bool"}

\* C8: when the apply pass comes to a numeric or boolean definition whose
\* key is set and whose value renders to the empty string, the definition
\* does not fail and its field holds the zero value of its type.
C8_EmptyIsZero ==
    \A p \in Procs : Applied(p) =>
        \A i \in 1..Len(loc[p].defs) :
            (/\ EmptyResolved(p, loc[p].defs[i])
             /\ NumericOrBool(loc[p].defs[i].kind)
             /\ ReachedAt(p, i)) =>
                /\ ReachedAt(p, i + 1)
                /\ loc[p].err.t # "strconv"
                /\ After(p, loc[p].defs[i]) = ZeroOf(loc[p].defs[i].kind)

\* A Load succeeded on flags supplied with empty values: a boolean, a float
\* and an unsigned field hold their zero values.
C8_Witness ==
    \E p \in Procs : Succeeded(p) /\
        \A k \in {"bool", "float64", "uint", "int"} :
            \E i \in 1..Len(loc[p].defs) :
                /\ loc[p].defs[i].kind = k
                /\ FlagSupplied(p, loc[p].defs[i])
                /\ EmptyResolved(p, loc[p].defs[i])
                /\ After(p, loc[p].defs[i]) = ZeroOf(k)

\* The list without its element i.
Without(defs, i) == SubSeq(defs, 1, i - 1) \o SubSeq(defs, i + 1, Len(defs))

\* C9: a definition whose key is not set in the store and which is not
\* required has no part in the apply pass: its field is as it was, and the
\* pass returns the error and leaves the record that it would for the list
\* without that definition.
C9_UnsetSkipped ==
    \A p \in Procs : Applied(p) =>
        \A i \in 1..Len(loc[p].defs) :
            (/\ ~viperIsSet(loc[p].store1, environ, loc[p].defs[i].key)
             /\ ~loc[p].defs[i].required) =>
                /\ After(p, loc[p].defs[i]) = Before(p, loc[p].defs[i])
                /\ loc[p].err # RequiredError(loc[p].defs[i].key)
                /\ applyDefinitions(Without(loc[p].defs, i), loc[p].store1, environ,
                                    loc[p].rec0)
                       = [err |-> loc[p].err, rec |-> loc[p].rec]

\* A Load succeeded that passed over an unset definition and then wrote the
\* field of a later one.
C9_Witness ==
    \E p \in Procs : Succeeded(p) /\
        \E i, j \in 1..Len(loc[p].defs) :
            /\ i < j
            /\ ~viperIsSet(loc[p].store1, environ, loc[p].defs[i].key)
            /\ ~loc[p].defs[i].required
            /\ After(p, loc[p].defs[i]) = Before(p, loc[p].defs[i])
            /\ After(p, loc[p].defs[j]) # Before(p, loc[p].defs[j])

\* The operations the lock serializes, and a caller inside one of them:
\* between taking the lock and the return.
Serialized == {"SetEnvPrefix", "SetName", "SetArgs", "Load"}

InCritical(p) ==
    loc[p].op \in Serialized /\ pc[p] \in {"set", "register", "parse", "apply"}

\* C10: a caller inside SetEnvPrefix, SetName, SetArgs or the body of Load
\* holds the lock, and no two callers are inside such operations at once.
C10_MutualExclusion ==
    \A p, q \in Procs :
        /\ InCritical(p) => mu = p
        /\ (p # q) => ~(InCritical(p) /\ InCritical(q))

\* One caller is in the body of Load while another waits for the lock in
\* SetArgs.
C10_Witness ==
    \E p, q \in Procs :
        /\ InCritical(p) /\ loc[p].op = "Load" /\ pc[p] = "parse"
        /\ loc[q].op = "SetArgs" /\ pc[q] = "lock"

\* A Load that caller p has started and that has not returned.
InLoad(p) == loc[p].op = "Load" /\ pc[p] # "ret"

\* C11: a caller that asks for the lock gets it, completes its call and
\* has then released the lock, whatever the calls before it returned.
C11_LockReleased ==
    \A p \in Procs : (pc[p] = "lock") ~> (pc[p] = "ret" /\ mu # p)

\* C12: every Load that is called returns, nil or an error, whatever type
\* the record it is given has.
C12_LoadTerminates ==
    \A p \in Procs : InLoad(p) ~> (pc[p] = "ret" /\ loc[p].op = "Load")

\* Caller p's Load has extracted its definitions.
Extracted(p) ==
    /\ loc[p].op = "Load"
    /\ pc[p] \in {"parse", "apply", "ret"}
    /\ loc[p].err # PanicError
    /\ loc[p].shape = "structptr"

\* C13: no two definitions extracted from one record have the same key.
C13_KeysUnique ==
    \A p \in Procs : Extracted(p) =>
        \A i, j \in 1..Len(loc[p].defs) :
            i # j => loc[p].defs[i].key # loc[p].defs[j].key

\* The struct fields above the field at a path, outermost first.
Ancestors(T, path) == [k \in 1..(Len(path) - 1) |-> FieldAt(T, SubSeq(path, 1, k))]

\* The key segment a struct field stands for: its prefix annotation when it
\* has one, else its identifier.
Segment(f) == IF HasTag(f, TagPrefix) THEN f.tags[TagPrefix] ELSE f.name

\* The segments that are not empty, in order.
RECURSIVE Segments(_)
Segments(fs) ==
    IF Len(fs) = 0 THEN <<>>
    ELSE IF Segment(fs[1]) = <<>> THEN Segments(Tail(fs))
    ELSE <<Segment(fs[1])>> \o Segments(Tail(fs))

\* The field of definition d lies in a sub-record whose prefix annotation is
\* present and empty.
EmptyPrefixed(T, d) ==
    /\ Len(d.field) > 1
    /\ HasTag(FieldAt(T, SubSeq(d.field, 1, Len(d.field) - 1)), TagPrefix)
    /\ FieldAt(T, SubSeq(d.field, 1, Len(d.field) - 1)).tags[TagPrefix] = <<>>

\* C19: the key of a field of a sub-record whose prefix annotation is present
\* and empty is the enclosing prefix (the segments of the records around it
\* that are not empty, joined by dots), one dot and the field's identifier;
\* without an enclosing prefix it is the identifier alone.
C19_EmptyPrefixNoSegment ==
    \A p \in Procs : Extracted(p) =>
        \A i \in 1..Len(loc[p].defs) :
            EmptyPrefixed(loc[p].T, loc[p].defs[i]) =>
                loc[p].defs[i].key =
                    Join(Segments(Ancestors(loc[p].T, loc[p].defs[i].field))
                           \o <<FieldAt(loc[p].T, loc[p].defs[i].field).name>>, <<".">>)

\* A field that is unexported or whose ignored annotation is truthy.
Hidden(f) ==
    \/ Len(f.name) = 0 \/ ~IsUpperChar(f.name[1])
    \/ HasTag(f, TagIgnored) /\ ParseBool(f.tags[TagIgnored]).v

\* The leaf fields, and the pointer fields, of a record type that are hidden
\* or lie beneath a hidden field.
HiddenLeaves(T) ==
    { x \in LeafPaths(T, <<>>) :
        \E k \in 1..Len(x) : Hidden(FieldAt(T, SubSeq(x, 1, k))) }

HiddenPtrs(T) ==
    { x \in PtrPaths(T, <<>>) :
        \E k \in 1..Len(x) : Hidden(FieldAt(T, SubSeq(x, 1, k))) }

\* The keys for which the store new has a source that the store old did not
\* have: an override, a flag of the flag set in use, an environment
\* variable, a default.
RegisteredKeys(old, new) ==
    { k \in DOMAIN new.override :
        k \notin DOMAIN old.override \/ new.override[k] # old.override[k] }
    \cup { k \in DOMAIN new.pflags : new.pflags[k].cur }
    \cup { k \in DOMAIN new.env : k \notin DOMAIN old.env \/ new.env[k] # old.env[k] }
    \cup { k \in DOMAIN new.defaults :
             k \notin DOMAIN old.defaults \/ new.defaults[k] # old.defaults[k] }

\* Caller p's Load of a record whose walk ends.
LoadOf(l) == l.op = "Load" /\ l.shape = "structptr" /\ ~Endless(l.T)

\* C14: at every step of a Load the fields that are unexported or ignored,
\* and the fields beneath them, hold what they held when Load was called
\* (a nil pointer among them stays nil), no definition is extracted for
\* them, and the step that registers the definitions gives the store
\* sources for the keys of extracted definitions only.
C14_HiddenUntouched ==
    [][\A p \in Procs : LoadOf(loc'[p]) =>
          /\ \A x \in HiddenLeaves(loc'[p].T) : loc'[p].rec[x] = loc'[p].rec0[x]
          /\ \A x \in HiddenPtrs(loc'[p].T) : x \in loc'[p].nil0 => x \in loc'[p].nilp
          /\ \A i \in 1..Len(loc'[p].defs) :
                loc'[p].defs[i].field \notin HiddenLeaves(loc'[p].T)
          /\ (pc[p] = "register" /\ pc'[p] # "register") =>
                \A k \in RegisteredKeys(viper, viper') :
                    \E i \in 1..Len(loc'[p].defs) : ToLower(loc'[p].defs[i].key) = k]_vars

\* A Load returned nil for a record with an ignored field that is required
\* and has a default, and with hidden sub-records: the default of the
\* visible field was applied, the hidden fields are as they were and the
\* store holds nothing under their keys.
C14_Witness ==
    \E p \in Procs :
        /\ Succeeded(p) /\ loc[p].T = "Hid"
        /\ loc[p].rec[<<4>>] = <<"w">>
        /\ loc[p].rec[<<1>>] = <<>> /\ loc[p].rec[<<6>>] = <<>>
        /\ <<2>> \in loc[p].nilp
        /\ <<"g">> \notin DOMAIN viper.defaults

\* The value the field of definition d gets when the value v is rendered as
\* text and the text is coerced back into the field.
RoundTrip(d, v) == processField(d.kind, d.caps, v, FormatV(d.kind, v)).v

\* C15: a field that holds a non-zero value when Load is called holds the
\* same value after a successful Load: its value, rendered as text and
\* coerced back, is the value again.
C15_RoundTripIdentity ==
    \A p \in Procs : Succeeded(p) =>
        \A i \in 1..Len(loc[p].defs) :
            loc[p].defs[i].hasOverride =>
                /\ RoundTrip(loc[p].defs[i], Before(p, loc[p].defs[i]))
                      = Before(p, loc[p].defs[i])
                /\ After(p, loc[p].defs[i]) = Before(p, loc[p].defs[i])

\* The method that decoded the field of definition d in caller p's Load,
\* "" when none did.
DecodedVia(p, d) ==
    IF Via(d.field) \in DOMAIN loc[p].rec THEN loc[p].rec[Via(d.field)] ELSE ""

\* C16: a field whose type is a Decoder, as a value or through a pointer to
\* it, is decoded by Decode, never by UnmarshalText, also when it is a text
\* unmarshaler too; UnmarshalText is called only for a type that is no
\* Decoder either way.
C16_DecoderFirst ==
    \A p \in Procs : Applied(p) =>
        \A i \in 1..Len(loc[p].defs) :
            /\ (loc[p].defs[i].caps.valDec \/ loc[p].defs[i].caps.ptrDec)
                  => DecodedVia(p, loc[p].defs[i]) # "UnmarshalText"
            /\ DecodedVia(p, loc[p].defs[i]) = "UnmarshalText"
                  => /\ ~loc[p].defs[i].caps.valDec /\ ~loc[p].defs[i].caps.ptrDec
                     /\ loc[p].defs[i].caps.valText \/ loc[p].defs[i].caps.ptrText

\* A Load decoded a field whose type has both methods by Decode, a field
\* whose value is a text unmarshaler and whose pointer is a Decoder by
\* Decode, and a field whose type has UnmarshalText alone by UnmarshalText.
C16_Witness ==
    \E p \in Procs : Applied(p) /\
        \E i, j, k \in 1..Len(loc[p].defs) :
            /\ loc[p].defs[i].caps = Caps(FALSE, TRUE, FALSE, TRUE)
            /\ DecodedVia(p, loc[p].defs[i]) = "Decode"
            /\ loc[p].defs[j].caps = Caps(FALSE, TRUE, TRUE, TRUE)
            /\ DecodedVia(p, loc[p].defs[j]) = "Decode"
            /\ loc[p].defs[k].caps = Caps(FALSE, FALSE, FALSE, TRUE)
            /\ DecodedVia(p, loc[p].defs[k]) = "UnmarshalText"

\* Caller p's Load has registered its definitions and holds the lock.
Registered(p) == Extracted(p) /\ pc[p] \in {"parse", "apply"}

\* C17: when a Load has registered its definitions, the environment variable
\* bound to the key of a definition with an env annotation is the
\* Configurator's environment prefix, an underscore and the definition's
\* alias, in upper case, when the prefix is not empty, and the alias in
\* upper case when it is.
C17_EnvName ==
    \A p \in Procs : Registered(p) =>
        \A i \in 1..Len(loc[p].defs) :
            loc[p].defs[i].hasEnv =>
                /\ ToLower(loc[p].defs[i].key) \in DOMAIN viper.env
                /\ viper.env[ToLower(loc[p].defs[i].key)] =
                      IF envPrefix = <<>> THEN ToUpper(loc[p].defs[i].envAlias)
                      ELSE ToUpper(envPrefix) \o <<"_">> \o ToUpper(loc[p].defs[i].envAlias)

\* With the environment prefix app, a Load has bound the field Value of the
\* sub-record with the prefix sub to APP_SUB_VALUE.
C17_Witness ==
    \E p \in Procs : Registered(p) /\ envPrefix = <<"a","p","p">> /\
        \E i \in 1..Len(loc[p].defs) :
            /\ loc[p].defs[i].key = <<"s","u","b",".","V","a","l","u","e">>
            /\ viper.env[ToLower(loc[p].defs[i].key)]
                  = <<"A","P","P","_","S","U","B","_","V","A","L","U","E">>

\* A step of a Load, of SetName.
LoadStep(p) == loc[p].op = "Load" /\ pc[p] \in {"register", "parse", "apply"}

SetNameStep(p) == loc[p].op = "SetName" /\ pc[p] = "set"

\* C18: a step that changes the name is SetName's, or it is a Load's while
\* the name is empty, and then the new name is the first element of the
\* argument vector; no Load changes a name that is not empty.
C18_NameOnlyWhenEmpty ==
    [][name' # name =>
          \/ \E p \in Procs : SetNameStep(p) /\ name' = loc[p].arg
          \/ /\ \E p \in Procs : LoadStep(p)
             /\ name = <<>> /\ Len(args) > 0 /\ name' = args[1]]_vars

\* A Load has gone past its name step with a name that is not the first
\* element of the argument vector: the name was set before and was kept.
C18_Witness ==
    \E p \in Procs :
        /\ loc[p].op = "Load" /\ pc[p] \in {"parse", "apply", "ret"}
        /\ loc[p].shape = "structptr" /\ loc[p].err # PanicError
        /\ Len(args) > 0 /\ name # <<>> /\ name # args[1]

\* The field of definition d holds what the text resolved for it parses
\* to: the text is the field's rendering, or it is empty and the field is
\* the zero value, or the field is a duration and the text parses to it.
HoldsParsed(p, d) ==
    LET text == viperGetString(loc[p].store1, environ, d.key)
    IN  \/ FormatV(d.kind, After(p, d)) = text
        \/ text = <<>> /\ After(p, d) = ZeroOf(d.kind)
        \/ d.kind = "duration" /\ ParseDuration(text) = [ok |-> TRUE, v |-> After(p, d)]

Leaf(p, i) == FieldAt(loc[p].T, loc[p].defs[i].field)

Chain(p, i) == Segments(Ancestors(loc[p].T, loc[p].defs[i].field))

\* strings.ToLower, strings.ToUpper of every word.
LowerAll(words) == [k \in 1..Len(words) |-> ToLower(words[k])]

SplitTruthy(f) == HasTag(f, TagSplitWords) /\ ParseBool(f.tags[TagSplitWords]).v

\* C21: the key of every definition is the prefix segments of the records
\* around its field, each the prefix annotation when there is one and else
\* the field's identifier (for an embedded record its type's identifier),
\* and then the field's identifier, joined by dots; for a field of the
\* record itself it is the identifier alone.
C21_KeyIsChain ==
    \A p \in Procs : Extracted(p) =>
        \A i \in 1..Len(loc[p].defs) :
            loc[p].defs[i].key = Join(Chain(p, i) \o <<Leaf(p, i).name>>, <<".">>)

\* The last part of a flag alias: the annotation's value, or without one
\* the identifier with a lower-case first letter, split into words joined
\* by dashes when split_words is truthy.
FlagLast(f) ==
    IF TagGet(f, TagFlag) # <<>> THEN TagGet(f, TagFlag)
    ELSE IF SplitTruthy(f) THEN splitWords(lowerFirst(f.name), <<"-">>)
    ELSE lowerFirst(f.name)

\* C23: a definition has a flag exactly when its field has a flag
\* annotation, and then its alias is the lower-cased prefix segments of the
\* records around the field and the annotation's value as written, or
\* without a value the identifier with a lower-case first letter (split
\* into words when split_words is truthy), joined by dashes.
C23_FlagAlias ==
    \A p \in Procs : Extracted(p) =>
        \A i \in 1..Len(loc[p].defs) :
            /\ loc[p].defs[i].hasFlag <=> HasTag(Leaf(p, i), TagFlag)
            /\ loc[p].defs[i].hasFlag =>
                  loc[p].defs[i].flagAlias =
                      Join(LowerAll(Chain(p, i)) \o <<FlagLast(Leaf(p, i))>>, <<"-">>)

\* The last part of an environment alias, before it is upper-cased.
EnvLast(f) ==
    IF TagGet(f, TagEnvironment) # <<>> THEN TagGet(f, TagEnvironment)
    ELSE IF SplitTruthy(f) THEN splitWords(f.name, <<"_">>)
    ELSE f.name

\* C24: a definition has an environment binding exactly when its field has
\* an env annotation, and then its alias is, in upper case, the prefix
\* segments of the records around the field and the annotation's value, or
\* without a value the identifier (split into words when split_words is
\* truthy), joined by underscores.
C24_EnvAlias ==
    \A p \in Procs : Extracted(p) =>
        \A i \in 1..Len(loc[p].defs) :
            /\ loc[p].defs[i].hasEnv <=> HasTag(Leaf(p, i), TagEnvironment)
            /\ loc[p].defs[i].hasEnv =>
                  loc[p].defs[i].envAlias =
                      ToUpper(Join(Chain(p, i) \o <<EnvLast(Leaf(p, i))>>, <<"_">>))

\* A struct field the walk comes to: it is not hidden and neither is a
\* record around it, and no record around it decodes itself.
Walked(T, path) ==
    /\ FieldAt(T, path).kind = "struct"
    /\ \A k \in 1..Len(path) : ~Hidden(FieldAt(T, SubSeq(path, 1, k)))
    /\ \A k \in 1..(Len(path) - 1) :
          LET a == FieldAt(T, SubSeq(path, 1, k))
          IN ~(a.caps.valDec \/ a.caps.ptrDec \/ a.caps.valText \/ a.caps.ptrText)

\* The paths of all fields of a record type, those inside structs that
\* decode themselves included.
RECURSIVE AllPaths(_, _)
AllPaths(T, base) ==
    UNION { {base \o <<i>>}
            \cup (IF TypeTable[T][i].kind = "struct" /\ ~Endless(TypeTable[T][i].elem)
                  THEN AllPaths(TypeTable[T][i].elem, base \o <<i>>) ELSE {})
            : i \in 1..Len(TypeTable[T]) }

\* The definitions of caller p's Load for the field at path, for the
\* fields beneath it.
DefsAt(p, path) == { i \in 1..Len(loc[p].defs) : loc[p].defs[i].field = path }

DefsBelow(p, path) ==
    { i \in 1..Len(loc[p].defs) :
        /\ Len(loc[p].defs[i].field) > Len(path)
        /\ SubSeq(loc[p].defs[i].field, 1, Len(path)) = path }

\* C22: a struct field the walk comes to whose type has neither Decode nor
\* UnmarshalText, on the value or on a pointer to it, has no definition of
\* its own, and each of its fields that would get a definition as a field
\* of the record itself has one; a struct field whose type has one of the
\* methods has exactly one definition and none for the fields inside it.
C22_StructLeafOrChildren ==
    \A p \in Procs : (Extracted(p) /\ ~Endless(loc[p].T)) =>
        \A path \in { x \in AllPaths(loc[p].T, <<>>) : Walked(loc[p].T, x) } :
            LET f == FieldAt(loc[p].T, path)
            IN IF f.caps.valDec \/ f.caps.ptrDec \/ f.caps.valText \/ f.caps.ptrText
               THEN Cardinality(DefsAt(p, path)) = 1 /\ DefsBelow(p, path) = {}
               ELSE /\ DefsAt(p, path) = {}
                    /\ \A j \in 1..Len(TypeTable[f.elem]) :
                          LET g == TypeTable[f.elem][j]
                          IN (~Hidden(g) /\ g.kind \notin {"struct"} \cup unsupportedTypes)
                                => Cardinality(DefsAt(p, path \o <<j>>)) = 1

\* A Load has extracted the definitions of a record that has a struct with
\* Decode, a struct with UnmarshalText and a plain sub-record: one
\* definition for each of the first two and none for their fields, no
\* definition for the third and one for its field.
C22_Witness ==
    \E p \in Procs :
        /\ Extracted(p) /\ loc[p].T = "Types"
        /\ Cardinality(DefsAt(p, <<10>>)) = 1 /\ Cardinality(DefsAt(p, <<13>>)) = 1
        /\ DefsBelow(p, <<10>>) \cup DefsBelow(p, <<13>>) = {}
        /\ DefsAt(p, <<14>>) = {} /\ Cardinality(DefsAt(p, <<14, 1>>)) = 1

\* Caller p's Load of a record whose walk ends is past the shape checks
\* and past the extraction, or over.
PastExtraction(p) ==
    /\ loc[p].op = "Load" /\ loc[p].shape = "structptr"
    /\ pc[p] \in {"parse", "apply", "ret"}
    /\ ~Endless(loc[p].T)

\* C25: once a Load that passed the shape checks has extracted the
\* definitions, and when it is over, however it ended, no pointer field
\* that is exported and not ignored, in the record or in a sub-record the
\* walk goes into, is nil; a pointer that was set is still set, and until
\* values are applied the fields hold what they held.
C25_PointersSet ==
    \A p \in Procs : PastExtraction(p) =>
        /\ loc[p].nilp \cap (PtrPaths(loc[p].T, <<>>) \ HiddenPtrs(loc[p].T)) = {}
        /\ loc[p].nilp \subseteq loc[p].nil0
        /\ pc[p] = "parse" => loc[p].rec = loc[p].rec0

\* The key and the aliases of every definition of a list, in order.
KeyAliases(defs) ==
    [i \in 1..Len(defs) |->
        <<defs[i].key, defs[i].hasFlag, defs[i].flagAlias,
          defs[i].hasEnv, defs[i].envAlias>>]

\* The record of type T, with the paths of rec, whose fields are all zero.
ZeroRecord(T, rec) == [x \in DOMAIN rec |-> ZeroOf(FieldAt(T, x).kind)]

Unsourced(d) == ~d.hasOverride /\ ~d.hasDefault

\* The store is kept: no step takes a key out of its overrides, defaults,
\* flag bindings or environment bindings.
StoreKept ==
    [][/\ DOMAIN viper.override \subseteq DOMAIN viper'.override
       /\ DOMAIN viper.defaults \subseteq DOMAIN viper'.defaults
       /\ DOMAIN viper.pflags \subseteq DOMAIN viper'.pflags
       /\ DOMAIN viper.env \subseteq DOMAIN viper'.env]_vars

\* C27: the store is kept between Loads, so that a field that is zero and
\* whose definition brings no override and no default, but for whose key
\* the store holds an override, or without a set flag and environment
\* value a default, is resolved to that entry by a Load that returns nil,
\* and a required definition with such a key does not fail the required
\* check.
C27_ResolvedFromStore ==
    \A p \in Procs : Applied(p) =>
        \A i \in 1..Len(loc[p].defs) :
            LET d == loc[p].defs[i]
                k == ToLower(d.key)
                st == loc[p].store1
            IN Unsourced(d) =>
                /\ (loc[p].err = NoError /\ k \in DOMAIN st.override)
                      => AfterText(p, d) = FormatV(st.override[k].kind, st.override[k].v)
                /\ (/\ loc[p].err = NoError
                    /\ k \notin DOMAIN st.override /\ ~StoreFlagSet(p, d)
                    /\ StoreEnvText(p, d) = <<>> /\ k \in DOMAIN st.defaults)
                      => AfterText(p, d) = st.defaults[k]
                /\ (d.required /\ k \in DOMAIN st.override \cup DOMAIN st.defaults)
                      => loc[p].err # RequiredError(d.key)

\* Caller p's Load has attached the sink to its flag set and has not yet
\* parsed the arguments, which is when it writes the usage text.
Attached(p) == loc[p].op = "Load" /\ pc[p] = "parse"

\* C28: a step that changes the output sink is taken by the caller that
\* holds the lock, and the sink does not change between the step of a Load
\* that attaches it to the flag set and the step that writes the usage.
C28_SinkSerialized ==
    [][/\ output' # output => \E p \in Procs : mu = p /\ pc'[p] # pc[p]
       /\ (\E p \in Procs : Attached(p) /\ pc'[p] = pc[p]) => output' = output]_vars

\* C29: a Load of a struct pointer that is over has returned, nil or an
\* error value: it has not panicked.
C29_LoadReturnsNormally ==
    \A p \in Procs :
        (LoadDone(p) /\ loc[p].shape = "structptr") => loc[p].err # PanicError

\* A definition of caller p's Load has a flag.
AnyFlag(p) == \E i \in 1..Len(loc[p].defs) : loc[p].defs[i].hasFlag

\* Every source definition d names has its entry in the store.
InStore(store, d) ==
    LET k == ToLower(d.key)
    IN /\ d.hasOverride => k \in DOMAIN store.override
       /\ d.hasFlag => (k \in DOMAIN store.pflags /\ store.pflags[k].cur)
       /\ d.hasEnv => k \in DOMAIN store.env
       /\ d.hasDefault => k \in DOMAIN store.defaults

====
